---- MODULE Spec2Model ----
(***************************************************************************)
(* Mock game simulation engine of pico-scoreboard                          *)
(* (backend/src/mock/simulation): lifecycle Pregame -> Live -> Final, the  *)
(* play generator, the drive rules, the advancement loop and the           *)
(* repository operations create / get / delete.                            *)
(*                                                                         *)
(* Wall-clock time is counted in whole seconds.  time_scale is a natural   *)
(* number.  Option<T> is a sequence: << >> is None and <<x>> is Some(x).   *)
(* Fixed-width integers wrap as in a release build.                        *)
(***************************************************************************)
EXTENDS Integers, Sequences, FiniteSets, TLC

VARIABLES
    game,       \* the SimulatedGame stored under the id sim_1, or NoGame
    created,    \* TRUE once create has handed out the id
    now,        \* wall-clock instant (seconds)
    pc,         \* "idle", or "advancing" while get runs advance_to_target
    target,     \* the capped target of the running advance_to_target
    resp,       \* Option<GameResponse>: projection returned by the last get
    trail,      \* history: the phases the record has been in, in order
    twin,       \* second game record of the determinism scenario
    twin_target, \* the capped target of the second game's advance_to_target
    plays,      \* per-game sequences of last_play observed after each get
    games,      \* GameRepository.games: id -> SimulatedGame
    next_id,    \* GameRepository.next_id
    calls,      \* per client: the position of its call and the call's result
    issued,     \* history: the ids generate_id has returned, in order
    deleted,    \* history: the ids for which delete has returned true
    asked,      \* history: Option of the request create was called with
    drawn       \* Option of the input a function was applied to

vars == <<game, created, now, pc, target, resp, trail, twin, twin_target, plays,
          games, next_id, calls, issued, deleted, asked, drawn>>

repo_vars == <<games, next_id, calls, issued, deleted>>

aux_vars == <<asked, drawn>>

sim_vars == <<game, created, now, pc, target, resp, trail, twin, twin_target, plays,
              aux_vars>>

-----------------------------------------------------------------------------
(* Bounds of the model *)

MaxNow == 5          \* wall-clock horizon: Tick stops here
MaxGames == 3        \* ids the repository hands out before creation stops
MaxClock == 3599     \* largest clock value whose text is fed back to parse_clock
MaxShared == 1       \* games created while the lock of the repository is modelled
MaxLockNow == 1      \* wall-clock horizon while the lock is modelled

-----------------------------------------------------------------------------
(* Option and fixed-width helpers *)

None == << >>
Some(x) == <<x>>
IsSome(o) == o # << >>
UnwrapOr(o, d) == IF o # << >> THEN o[1] ELSE d

Min(a, b) == IF a < b THEN a ELSE b
Max(a, b) == IF a > b THEN a ELSE b
Clamp(x, lo, hi) == Max(lo, Min(x, hi))

U8(x) == x % 256
U16(x) == x % 65536
AsI8(x) == LET m == x % 256 IN IF m >= 128 THEN m - 256 ELSE m
SatAddU8(a, b) == Min(a + b, 255)
\* a subtraction that leaves the minuend
SatSubU16_keep(a, b) == a

SatSubU16(a, b) == Max(a - b, 0)

-----------------------------------------------------------------------------
(* StdRng: a deterministic generator.  The state is a 16-bit word advanced *)
(* by a full-period linear congruential step; every draw consumes one      *)
(* step and is derived from the high 10 bits of the new state.             *)

NextRng(r) == (r * 25173 + 13849) % 65536
RngOut(r) == NextRng(r) \div 64

seed_from_u64(seed) == NextRng(seed % 65536)

\* rng.gen_bool(p), p given in permille
gen_bool(r, permille) ==
    [val |-> RngOut(r) * 1000 < permille * 1024, rng |-> NextRng(r)]

\* rng.gen_range(lo..hi), hi exclusive
gen_range(r, lo, hi) ==
    [val |-> lo + ((RngOut(r) * (hi - lo)) \div 1024), rng |-> NextRng(r)]

-----------------------------------------------------------------------------
(* Enumerations of game/types.rs *)

Quarters == {"First", "Second", "Third", "Fourth", "OT", "OT2"}
Downs == {"First", "Second", "Third", "Fourth"}
Possessions == {"Home", "Away"}

-----------------------------------------------------------------------------
(* Team catalog (mock/teams.rs) *)

NFL_TEAMS ==
    << "BUF", "MIA", "NE", "NYJ", "BAL", "CIN", "CLE", "PIT",
       "HOU", "IND", "JAX", "TEN", "DEN", "KC", "LV", "LAC",
       "DAL", "NYG", "PHI", "WSH", "CHI", "DET", "GB", "MIN",
       "ATL", "CAR", "NO", "TB", "ARI", "LAR", "SF", "SEA" >>

Swap(s, i, j) == [s EXCEPT ![i] = s[j], ![j] = s[i]]

\* indices.shuffle(rng): Fisher-Yates from the last index down to the second,
\* positions are 1-based here
RECURSIVE Shuffle(_, _, _)
Shuffle(s, i, r) ==
    IF i <= 1 THEN [val |-> s, rng |-> r]
    ELSE LET d == gen_range(r, 1, i + 1)
         IN Shuffle(Swap(s, i, d.val), i - 1, d.rng)

get_matchup(r) ==
    LET sh == Shuffle([i \in 1..Len(NFL_TEAMS) |-> i], Len(NFL_TEAMS), r)
    IN [home |-> NFL_TEAMS[sh.val[1]], away |-> NFL_TEAMS[sh.val[2]], rng |-> sh.rng]

\* abbr.to_uppercase() over the abbreviations requests use
to_uppercase(s) ==
    CASE s = "kc" -> "KC"
      [] s = "phi" -> "PHI"
      [] OTHER -> s

find_team(abbr) ==
    LET up == to_uppercase(abbr)
        hits == {i \in 1..Len(NFL_TEAMS) : NFL_TEAMS[i] = up}
    IN IF hits = {} THEN None ELSE Some(NFL_TEAMS[CHOOSE i \in hits : TRUE])

random_record(r) ==
    LET w == gen_range(r, 0, 18)
        l == gen_range(w.rng, 0, (17 - w.val) + 1)
        t == gen_bool(l.rng, 50)
    IN [val |-> IF t.val THEN <<w.val, l.val, 1>> ELSE <<w.val, l.val>>, rng |-> t.rng]

TeamInfo(abbr, record) == [abbreviation |-> abbr, record |-> record]

\* the away-team retry loop of resolve_teams
RECURSIVE PickAway(_, _)
PickAway(home, r) ==
    LET m == get_matchup(r)
    IN IF m.away # home THEN [val |-> m.away, rng |-> m.rng]
       ELSE PickAway(home, m.rng)

resolve_teams(home, away, r) ==
    LET hf == IF IsSome(home) THEN find_team(home[1]) ELSE None
        af == IF IsSome(away) THEN find_team(away[1]) ELSE None
        Records(h, a, hr, ar) ==
            [home |-> TeamInfo(h, Some(hr.val)),
             away |-> TeamInfo(a, Some(ar.val)),
             rng |-> ar.rng]
        HomeRecord(h, a, hr) == Records(h, a, hr, random_record(hr.rng))
        AwayTeam(h, a) == HomeRecord(h, a.val, random_record(a.rng))
        HomeTeam(h) ==
            AwayTeam(h.val, IF IsSome(af) THEN [val |-> af[1], rng |-> h.rng]
                            ELSE PickAway(h.val, h.rng))
        MatchupHome(m) == [val |-> m.home, rng |-> m.rng]
    IN HomeTeam(IF IsSome(hf) THEN [val |-> hf[1], rng |-> r]
                ELSE MatchupHome(get_matchup(r)))

-----------------------------------------------------------------------------
(* Clock text: a string is a sequence of one-character strings *)

DigitChars == <<"0", "1", "2", "3", "4", "5", "6", "7", "8", "9">>
IsDigit(c) == \E i \in 1..10 : DigitChars[i] = c
DigitVal(c) == (CHOOSE i \in 1..10 : DigitChars[i] = c) - 1

\* decimal text of a natural number, at least `width` digits (zero padded)
RECURSIVE FormatNat(_, _)
FormatNat(n, width) ==
    IF n < 10 /\ width <= 1 THEN <<DigitChars[n + 1]>>
    ELSE FormatNat(n \div 10, width - 1) \o <<DigitChars[(n % 10) + 1]>>

\* format!("{}:{:02}", mins, secs)
format_clock(seconds) ==
    FormatNat(seconds \div 60, 1) \o <<":">> \o FormatNat(seconds % 60, 2)

\* clock.split(':')
RECURSIVE Split(_, _)
Split(s, sep) ==
    IF \A i \in 1..Len(s) : s[i] # sep THEN <<s>>
    ELSE LET k == CHOOSE i \in 1..Len(s) :
                      s[i] = sep /\ \A j \in 1..(i - 1) : s[j] # sep
         IN <<SubSeq(s, 1, k - 1)>> \o Split(SubSeq(s, k + 1, Len(s)), sep)

RECURSIVE DigitsValue(_)
DigitsValue(s) ==
    IF s = << >> THEN 0
    ELSE DigitsValue(SubSeq(s, 1, Len(s) - 1)) * 10 + DigitVal(s[Len(s)])

\* str::parse::<u16>(): optional '+', then at least one digit, no overflow
ParseU16(s) ==
    LET body == IF s # << >> /\ s[1] = "+" THEN Tail(s) ELSE s
    IN IF body = << >> \/ \E i \in 1..Len(body) : ~IsDigit(body[i]) THEN None
       ELSE IF DigitsValue(body) > 65535 THEN None
       ELSE Some(DigitsValue(body))

\* minutes weighted as hundreds
parse_clock_base100(clock) ==
    LET parts == Split(clock, ":")
    IN IF Len(parts) = 2
       THEN LET mins == ParseU16(parts[1])
                secs == ParseU16(parts[2])
            IN IF mins = None \/ secs = None THEN None
               ELSE Some(U16(mins[1] * 100 + secs[1]))
       ELSE None

parse_clock(clock) ==
    LET parts == Split(clock, ":")
    IN IF Len(parts) = 2
       THEN LET mins == ParseU16(parts[1])
                secs == ParseU16(parts[2])
            IN IF mins = None \/ secs = None THEN None
               ELSE Some(U16(mins[1] * 60 + secs[1]))
       ELSE None

-----------------------------------------------------------------------------
(* Random text fields of repository.rs *)

VENUES ==
    << "Arrowhead Stadium", "AT&T Stadium", "Bank of America Stadium",
       "Caesars Superdome", "Empower Field at Mile High", "FedExField",
       "Gillette Stadium", "Hard Rock Stadium", "Highmark Stadium",
       "Levi's Stadium", "Lincoln Financial Field", "Lumen Field",
       "M&T Bank Stadium", "Mercedes-Benz Stadium", "MetLife Stadium",
       "Paycor Stadium", "Raymond James Stadium", "SoFi Stadium",
       "Soldier Field", "State Farm Stadium", "U.S. Bank Stadium" >>

BROADCASTS == <<"CBS", "FOX", "NBC", "ESPN", "Amazon Prime", "NFL Network">>

DESCRIPTIONS ==
    <<"Clear", "Partly Cloudy", "Cloudy", "Light Rain", "Rain", "Snow",
      "Windy", "Sunny">>

PickFrom(list, r) ==
    LET d == gen_range(r, 0, Len(list))
    IN [val |-> list[d.val + 1], rng |-> d.rng]

random_venue(r) == PickFrom(VENUES, r)
random_broadcast(r) == PickFrom(BROADCASTS, r)
random_weather_description(r) == PickFrom(DESCRIPTIONS, r)

SCORE_WEIGHTS ==
    << <<0, 5>>, <<3, 15>>, <<6, 10>>, <<7, 15>>, <<10, 20>>, <<13, 15>>,
       <<14, 15>>, <<17, 25>>, <<20, 20>>, <<21, 15>>, <<23, 10>>,
       <<24, 20>>, <<27, 15>>, <<28, 10>>, <<30, 8>>, <<31, 8>>, <<34, 5>>,
       <<35, 5>>, <<38, 3>>, <<42, 2>>, <<45, 1>> >>

RECURSIVE SumWeights(_)
SumWeights(i) == IF i = 0 THEN 0 ELSE SumWeights(i - 1) + SCORE_WEIGHTS[i][2]

RECURSIVE PickScore(_, _)
PickScore(i, choice) ==
    IF i > Len(SCORE_WEIGHTS) THEN 24
    ELSE IF choice < SCORE_WEIGHTS[i][2] THEN SCORE_WEIGHTS[i][1]
    ELSE PickScore(i + 1, choice - SCORE_WEIGHTS[i][2])

generate_realistic_score(r) ==
    LET d == gen_range(r, 0, SumWeights(Len(SCORE_WEIGHTS)))
    IN [val |-> PickScore(1, d.val), rng |-> d.rng]

-----------------------------------------------------------------------------
(* State construction (repository.rs, state.rs) *)

\* s.parse::<DateTime<Utc>>().ok(): a request time is [ok, t]
parse_datetime(s) == IF s.ok THEN Some(s.t) ELSE None

create_pregame_state(opts, seed, t) ==
    LET start_time == UnwrapOr(IF IsSome(opts.start_time)
                                 THEN parse_datetime(opts.start_time[1])
                                 ELSE None, t + 30)
        Build(teams, venue, broadcast, weather) ==
            [tag |-> "Pregame",
             home_team |-> teams.home,
             away_team |-> teams.away,
             start_time |-> start_time,
             venue |-> venue.val,
             broadcast |-> broadcast.val,
             weather |-> weather,
             seed |-> seed,
             time_scale |-> UnwrapOr(opts.time_scale, 60)]
        GivenWeather(w, tmp) ==
            Some([temp |-> tmp.val,
                  description |-> IF IsSome(w.description) THEN w.description[1]
                                  ELSE random_weather_description(tmp.rng).val])
        DrawnDescription(has, tmp, dsc) ==
            IF has.val THEN Some([temp |-> tmp.val, description |-> dsc.val]) ELSE None
        DrawnTemp(has, tmp) ==
            DrawnDescription(has, tmp, random_weather_description(tmp.rng))
        DrawnWeather(has) == DrawnTemp(has, gen_range(has.rng, 20, 86))
        WeatherFrom(rng3) ==
            IF IsSome(opts.weather)
            THEN GivenWeather(opts.weather[1],
                              IF IsSome(opts.weather[1].temp)
                              THEN [val |-> opts.weather[1].temp[1], rng |-> rng3]
                              ELSE gen_range(rng3, 20, 86))
            ELSE DrawnWeather(gen_bool(rng3, 800))
        OfBroadcast(teams, venue, broadcast) ==
            Build(teams, venue, broadcast, WeatherFrom(broadcast.rng))
        OfVenue(teams, venue) ==
            OfBroadcast(teams, venue,
                        IF IsSome(opts.broadcast)
                        THEN [val |-> opts.broadcast[1], rng |-> venue.rng]
                        ELSE random_broadcast(venue.rng))
        OfTeams(teams) ==
            OfVenue(teams, IF IsSome(opts.venue)
                           THEN [val |-> opts.venue[1], rng |-> teams.rng]
                           ELSE random_venue(teams.rng))
    IN OfTeams(resolve_teams(opts.home_team, opts.away_team, seed_from_u64(seed)))

create_live_state(opts, seed, t) ==
    LET quarter == UnwrapOr(opts.quarter, "First")
        clock_seconds == UnwrapOr(IF IsSome(opts.clock) THEN parse_clock(opts.clock[1])
                                    ELSE None, 900)
        Build(teams, possession) ==
            [tag |-> "Live",
             home_team |-> teams.home,
             away_team |-> teams.away,
             home_score |-> UnwrapOr(opts.home_score, 0),
             away_score |-> UnwrapOr(opts.away_score, 0),
             quarter |-> quarter,
             clock_seconds |-> clock_seconds,
             clock_running |-> FALSE,
             possession |-> possession.val,
             down |-> UnwrapOr(opts.down, "First"),
             distance |-> UnwrapOr(opts.distance, 10),
             yard_line |-> UnwrapOr(opts.yard_line, 25),
             home_timeouts |-> UnwrapOr(opts.home_timeouts, 3),
             away_timeouts |-> UnwrapOr(opts.away_timeouts, 3),
             last_play |-> None,
             play_history |-> << >>,
             rng |-> possession.rng,
             game_start_instant |-> t,
             simulated_game_seconds |-> 0,
             time_scale |-> UnwrapOr(opts.time_scale, 60),
             kickoff_pending |-> (opts.yard_line = None /\ opts.possession = None),
             weather |-> None]
        Toss(coin) == [val |-> IF coin.val THEN "Home" ELSE "Away", rng |-> coin.rng]
        OfTeams(teams) ==
            Build(teams, IF IsSome(opts.possession)
                         THEN [val |-> opts.possession[1], rng |-> teams.rng]
                         ELSE Toss(gen_bool(teams.rng, 500)))
    IN OfTeams(resolve_teams(opts.home_team, opts.away_team, seed_from_u64(seed)))

\* entropy is the seed StdRng::from_entropy() happens to draw
create_final_state(opts, entropy) ==
    LET Build(teams, home_score, away_score) ==
            [tag |-> "Final",
             home_team |-> teams.home,
             away_team |-> teams.away,
             home_score |-> home_score,
             away_score |-> away_score,
             overtime |-> UnwrapOr(opts.overtime, FALSE)]
        Scores(teams, g1, g2) ==
            Build(teams,
                  IF IsSome(opts.home_score) THEN opts.home_score[1] ELSE g1.val,
                  IF IsSome(opts.away_score) THEN opts.away_score[1]
                  ELSE IF IsSome(opts.home_score) THEN g1.val ELSE g2.val)
        FirstScore(teams, g1) == Scores(teams, g1, generate_realistic_score(g1.rng))
        OfTeams(teams) == FirstScore(teams, generate_realistic_score(teams.rng))
    IN OfTeams(resolve_teams(opts.home_team, opts.away_team, seed_from_u64(entropy)))

\* LiveState::new, called with the wall instant t of the transition
LiveState_new(home_team, away_team, seed, time_scale, weather, t) ==
    LET rng0 == seed_from_u64(seed)
        coin == gen_bool(rng0, 500)
    IN [tag |-> "Live",
        home_team |-> home_team,
        away_team |-> away_team,
        home_score |-> 0,
        away_score |-> 0,
        quarter |-> "First",
        clock_seconds |-> 900,
        clock_running |-> FALSE,
        possession |-> IF coin.val THEN "Home" ELSE "Away",
        down |-> "First",
        distance |-> 10,
        yard_line |-> 25,
        home_timeouts |-> 3,
        away_timeouts |-> 3,
        last_play |-> None,
        play_history |-> << >>,
        rng |-> coin.rng,
        game_start_instant |-> t,
        simulated_game_seconds |-> 0,
        time_scale |-> time_scale,
        kickoff_pending |-> TRUE,
        weather |-> weather]

\* variant: the start instant itself does not start the game
should_start_strict(p, t) == t > p.start_time

should_start(p, t) == t >= p.start_time

to_live_state(p, t) ==
    LiveState_new(p.home_team, p.away_team, p.seed, p.time_scale, p.weather, t)

-----------------------------------------------------------------------------
(* Play generator (plays.rs) *)

PlayOutcome(play_type, yards_gained, clock_elapsed, description, turnover, scoring) ==
    [play_type |-> play_type,
     yards_gained |-> yards_gained,
     clock_elapsed |-> clock_elapsed,
     description |-> description,
     turnover |-> turnover,
     scoring |-> scoring]

Gen(outcome, r) == [outcome |-> outcome, rng |-> r]

select_play_type(r, down, distance, quarter, clock_seconds, yard_line) ==
    LET d == gen_range(r, 0, 100)
        roll == d.val
        in_two_minute == clock_seconds <= 120 /\ quarter \in {"Second", "Fourth"}
        in_red_zone == yard_line >= 80
        choice ==
            CASE down = "First" ->
                    IF in_two_minute
                    THEN (IF roll < 75 THEN "PassReception" ELSE "Rush")
                    ELSE IF roll < 45 THEN "Rush" ELSE "PassReception"
              [] down = "Second" /\ distance \in 1..3 ->
                    IF roll < 55 THEN "Rush" ELSE "PassReception"
              [] down = "Second" /\ distance \in 4..7 ->
                    IF roll < 45 THEN "Rush" ELSE "PassReception"
              [] down = "Second" /\ distance \notin 1..7 ->
                    IF roll < 30 THEN "Rush" ELSE "PassReception"
              [] down = "Third" /\ distance \in 1..3 ->
                    IF in_red_zone /\ roll < 65 THEN "Rush"
                    ELSE IF roll < 50 THEN "Rush" ELSE "PassReception"
              [] down = "Third" /\ distance \in 4..7 ->
                    IF roll < 25 THEN "Rush" ELSE "PassReception"
              [] down = "Third" /\ distance \notin 1..7 ->
                    IF roll < 15 THEN "Rush"
                    ELSE IF roll < 90 THEN "PassReception" ELSE "Rush"
              [] OTHER -> "Punt"
    IN [val |-> choice, rng |-> d.rng]

generate_kickoff(r) ==
    LET touchback == gen_bool(r, 650)
        return_yards == gen_range(touchback.rng, 15, 35)
        clock == gen_range(return_yards.rng, 5, 10)
    IN IF touchback.val
       THEN Gen(PlayOutcome("Kickoff", 0, 5, <<"Kickoff, touchback.">>, FALSE, None),
                touchback.rng)
       ELSE Gen(PlayOutcome("KickoffReturn", return_yards.val, clock.val,
                            <<"Kickoff returned for {} yards.", return_yards.val>>,
                            FALSE, None),
                clock.rng)

generate_rush_yards(r, yard_line) ==
    LET d == gen_range(r, 0, 100)
        roll == d.val
        y == IF roll < 15 THEN gen_range(d.rng, -3, 1)
             ELSE IF roll < 55 THEN gen_range(d.rng, 1, 5)
             ELSE IF roll < 85 THEN gen_range(d.rng, 5, 10)
             ELSE IF roll < 95 THEN gen_range(d.rng, 10, 20)
             ELSE gen_range(d.rng, 20, 76)
        max_yards == AsI8(U8(100 - yard_line))
    IN [val |-> Min(y.val, max_yards), rng |-> y.rng]

generate_pass_yards(r, yard_line, distance) ==
    LET d == gen_range(r, 0, 100)
        roll == d.val
        target_boost == IF distance >= 5 THEN 3 ELSE 0
        draw == IF roll < 10 THEN gen_range(d.rng, -2, 3)
                ELSE IF roll < 35 THEN gen_range(d.rng, 3, 8)
                ELSE IF roll < 70 THEN gen_range(d.rng, 8, 16)
                ELSE IF roll < 90 THEN gen_range(d.rng, 16, 31)
                ELSE gen_range(d.rng, 31, 76)
        yards == IF roll < 10 THEN draw.val
                 ELSE IF roll < 35 THEN draw.val + (target_boost \div 2)
                 ELSE IF roll < 70 THEN draw.val + target_boost
                 ELSE draw.val
        max_yards == AsI8(U8(100 - yard_line))
    IN [val |-> Min(yards, max_yards), rng |-> draw.rng]

generate_sack_play(r) ==
    LET yards_lost == gen_range(r, 3, 11)
        clock == gen_range(yards_lost.rng, 25, 40)
    IN Gen(PlayOutcome("Sack", -yards_lost.val, clock.val,
                       <<"SACKED for a loss of {} yards!", yards_lost.val>>, FALSE, None),
           clock.rng)

generate_rush_play(r, yard_line) ==
    LET LostFumble(opp_clock) ==
            Gen(PlayOutcome("FumbleRecoveryOpponent", 0, opp_clock.val,
                            <<"FUMBLE! Recovered by the defense.">>, TRUE, None),
                opp_clock.rng)
        KeptFumble(own_yards, own_clock) ==
            Gen(PlayOutcome("FumbleRecoveryOwn", own_yards.val, own_clock.val,
                            <<"Fumble, recovered by the offense.">>, FALSE, None),
                own_clock.rng)
        KeptYards(own_yards) == KeptFumble(own_yards, gen_range(own_yards.rng, 20, 35))
        Fumbled(by_opponent) ==
            IF by_opponent.val THEN LostFumble(gen_range(by_opponent.rng, 5, 10))
            ELSE KeptYards(gen_range(by_opponent.rng, -3, 1))
        RushTouchdown(td_clock) ==
            Gen(PlayOutcome("RushingTouchdown", AsI8(U8(100 - yard_line)), td_clock.val,
                            <<"TOUCHDOWN! {} yard rushing TD!", U8(100 - yard_line)>>,
                            FALSE, Some("Touchdown")),
                td_clock.rng)
        RushSafety(safety_clock) ==
            Gen(PlayOutcome("Safety", AsI8(-AsI8(yard_line)), safety_clock.val,
                            <<"SAFETY! Tackled in the end zone!">>, TRUE, Some("Safety")),
                safety_clock.rng)
        Rushed(yards, clock) ==
            Gen(PlayOutcome("Rush", yards, clock.val,
                            IF yards > 0 THEN <<"Rush for {} yards.", yards>>
                            ELSE IF yards = 0 THEN <<"Rush for no gain.">>
                            ELSE <<"Rush for a loss of {} yards.", -yards>>,
                            FALSE, None),
                clock.rng)
        RushClock(yards, oob) ==
            Rushed(yards, IF oob.val THEN gen_range(oob.rng, 5, 15)
                          ELSE gen_range(oob.rng, 25, 45))
        Carried(y) ==
            IF yard_line + y.val >= 100 THEN RushTouchdown(gen_range(y.rng, 5, 15))
            ELSE IF yard_line + y.val <= 0 THEN RushSafety(gen_range(y.rng, 5, 10))
            ELSE IF y.val < 0 THEN Rushed(y.val, gen_range(y.rng, 5, 15))
            ELSE RushClock(y.val, gen_bool(y.rng, 300))
        Handoff(fumble) ==
            IF fumble.val THEN Fumbled(gen_bool(fumble.rng, 500))
            ELSE Carried(generate_rush_yards(fumble.rng, yard_line))
    IN Handoff(gen_bool(r, 10))

generate_pass_play(r, yard_line, distance) ==
    LET Picked(int_clock) ==
            Gen(PlayOutcome("Interception", 0, int_clock.val, <<"INTERCEPTED!">>,
                            TRUE, None),
                int_clock.rng)
        Missed(inc_clock) ==
            Gen(PlayOutcome("PassIncompletion", 0, inc_clock.val, <<"Pass incomplete.">>,
                            FALSE, None),
                inc_clock.rng)
        PassTouchdown(td_clock) ==
            Gen(PlayOutcome("PassingTouchdown", AsI8(U8(100 - yard_line)), td_clock.val,
                            <<"TOUCHDOWN! {} yard passing TD!", U8(100 - yard_line)>>,
                            FALSE, Some("Touchdown")),
                td_clock.rng)
        Caught(yards, clock) ==
            Gen(PlayOutcome("PassReception", yards, clock.val,
                            IF yards > 0 THEN <<"Pass complete for {} yards.", yards>>
                            ELSE <<"Pass complete for a loss of {} yards.", -yards>>,
                            FALSE, None),
                clock.rng)
        CatchClock(yards, oob) ==
            Caught(yards, IF oob.val THEN gen_range(oob.rng, 5, 15)
                          ELSE gen_range(oob.rng, 25, 45))
        Completed(y) ==
            IF yard_line + y.val >= 100 THEN PassTouchdown(gen_range(y.rng, 5, 15))
            ELSE CatchClock(y.val, gen_bool(y.rng, 250))
        Thrown(incomplete) ==
            IF incomplete.val THEN Missed(gen_range(incomplete.rng, 5, 10))
            ELSE Completed(generate_pass_yards(incomplete.rng, yard_line, distance))
        Released(intercepted) ==
            IF intercepted.val THEN Picked(gen_range(intercepted.rng, 5, 10))
            ELSE Thrown(gen_bool(intercepted.rng, 350))
        Dropback(sack) ==
            IF sack.val THEN generate_sack_play(sack.rng)
            ELSE Released(gen_bool(sack.rng, 25))
    IN Dropback(gen_bool(r, 70))

fg_success_rate(fg_distance) ==
    IF fg_distance <= 30 THEN 950
    ELSE IF fg_distance <= 40 THEN 850
    ELSE IF fg_distance <= 50 THEN 700
    ELSE IF fg_distance <= 55 THEN 550
    ELSE 400

generate_fourth_down_play(r, distance, yard_line, quarter, clock_seconds, possession, home_score, away_score) ==
    LET in_fg_range == yard_line >= 55
        should_punt == ~in_fg_range /\ yard_line < 60
        go_for_it == distance <= 2 /\ yard_line >= 50
        desperate == /\ clock_seconds < 120
                     /\ quarter = "Fourth"
                     /\ \/ (possession = "Home" /\ home_score < away_score)
                        \/ (possession = "Away" /\ away_score < home_score)
        fg_distance == U8(U8(100 - yard_line) + 17)
        good == gen_bool(r, fg_success_rate(fg_distance))
        punt_distance == gen_range(r, 35, 55)
        punt_clock == gen_range(punt_distance.rng, 5, 10)
    IN IF in_fg_range /\ ~desperate
       THEN IF good.val
            THEN Gen(PlayOutcome("FieldGoalGood", 0, 5,
                                 <<"{} yard field goal is GOOD!", fg_distance>>,
                                 FALSE, Some("FieldGoal")),
                     good.rng)
            ELSE Gen(PlayOutcome("FieldGoalMissed", 0, 5,
                                 <<"{} yard field goal is NO GOOD.", fg_distance>>,
                                 TRUE, None),
                     good.rng)
       ELSE IF should_punt /\ ~desperate /\ ~go_for_it
       THEN Gen(PlayOutcome("Punt", -punt_distance.val, punt_clock.val,
                            <<"Punt for {} yards.", punt_distance.val>>, TRUE, None),
                punt_clock.rng)
       ELSE IF distance <= 2 THEN generate_rush_play(r, yard_line)
       ELSE generate_pass_play(r, yard_line, distance)

generate_play(state) ==
    LET Selected(sel) ==
            CASE sel.val = "Rush" -> generate_rush_play(sel.rng, state.yard_line)
              [] sel.val \in {"PassReception", "PassIncompletion"} ->
                    generate_pass_play(sel.rng, state.yard_line, state.distance)
              [] sel.val = "Sack" -> generate_sack_play(sel.rng)
              [] OTHER -> generate_rush_play(sel.rng, state.yard_line)
    IN IF state.kickoff_pending THEN generate_kickoff(state.rng)
       ELSE IF state.down = "Fourth"
       THEN generate_fourth_down_play(state.rng, state.distance, state.yard_line,
                                      state.quarter, state.clock_seconds, state.possession,
                                      state.home_score, state.away_score)
       ELSE Selected(select_play_type(state.rng, state.down, state.distance,
                                      state.quarter, state.clock_seconds, state.yard_line))

outcome_to_play(outcome) ==
    [play_type |-> outcome.play_type,
     yards_gained |-> outcome.yards_gained,
     description |-> outcome.description,
     clock_elapsed |-> outcome.clock_elapsed]

-----------------------------------------------------------------------------
(* Drive rules (drives.rs) *)

opponent(possession) == IF possession = "Home" THEN "Away" ELSE "Home"

next_down(down) ==
    CASE down = "First" -> "Second"
      [] down = "Second" -> "Third"
      [] down = "Third" -> "Fourth"
      [] down = "Fourth" -> "First"

flip_possession(state) == [state EXCEPT !.possession = opponent(state.possession)]

add_score(state, points) ==
    IF state.possession = "Home"
    THEN [state EXCEPT !.home_score = SatAddU8(state.home_score, points)]
    ELSE [state EXCEPT !.away_score = SatAddU8(state.away_score, points)]

setup_kickoff_after_score(state) ==
    [state EXCEPT !.possession = opponent(state.possession),
                  !.kickoff_pending = TRUE,
                  !.yard_line = 35,
                  !.down = "First",
                  !.distance = 10]

handle_touchdown(state) ==
    LET s6 == add_score(state, 6)
        pat == gen_bool(s6.rng, 940)
        s7 == [s6 EXCEPT !.rng = pat.rng]
    IN setup_kickoff_after_score(IF pat.val THEN add_score(s7, 1) ELSE s7)

handle_field_goal(state) == setup_kickoff_after_score(add_score(state, 3))

handle_safety(state) ==
    LET scoring_team == opponent(state.possession)
        scored == IF scoring_team = "Home"
                  THEN [state EXCEPT !.home_score = U8(state.home_score + 2)]
                  ELSE [state EXCEPT !.away_score = U8(state.away_score + 2)]
    IN [scored EXCEPT !.possession = opponent(state.possession),
                      !.kickoff_pending = TRUE,
                      !.down = "First",
                      !.distance = 10,
                      !.yard_line = 20]

handle_turnover(state, outcome) ==
    LET f == flip_possession(state)
        spot == gen_range(state.rng, 25, 40)
        punt_distance == U8(-outcome.yards_gained)
        landed == U8(100 - Min(U8(state.yard_line + punt_distance), 95))
        return_yards == gen_range(state.rng, 5, 15)
    IN CASE outcome.play_type = "Interception" ->
                [f EXCEPT !.yard_line = spot.val,
                          !.rng = spot.rng,
                          !.down = "First",
                          !.distance = 10]
         [] outcome.play_type = "Punt" ->
                [f EXCEPT !.yard_line = Min(U8(landed + return_yards.val), 99),
                          !.rng = return_yards.rng,
                          !.down = "First",
                          !.distance = 10]
         [] OTHER ->
                \* FumbleRecoveryOpponent, FieldGoalMissed, BlockedFieldGoal and
                \* every other turnover: flip the field at the current spot
                [f EXCEPT !.yard_line = U8(100 - state.yard_line),
                          !.down = "First",
                          !.distance = 10]

\* variant: the return spot is taken as it is, without the floor of 20
handle_kickoff_return_raw(state, outcome) ==
    [state EXCEPT !.kickoff_pending = FALSE,
                  !.yard_line = IF outcome.play_type = "Kickoff" THEN 25
                                ELSE U8(outcome.yards_gained),
                  !.down = "First",
                  !.distance = 10]

handle_kickoff_return(state, outcome) ==
    [state EXCEPT !.kickoff_pending = FALSE,
                  !.yard_line = IF outcome.play_type = "Kickoff" THEN 25
                                ELSE U8(Max(outcome.yards_gained, 20)),
                  !.down = "First",
                  !.distance = 10]

handle_turnover_on_downs(state) ==
    [state EXCEPT !.possession = opponent(state.possession),
                  !.yard_line = U8(100 - state.yard_line),
                  !.down = "First",
                  !.distance = 10]

update_field_position(state, outcome) ==
    LET yards_gained == outcome.yards_gained
        new_yard_line == U8(Clamp(state.yard_line + yards_gained, 1, 99))
        gained_first_down == yards_gained >= AsI8(state.distance)
        remaining == AsI8(AsI8(state.distance) - yards_gained)
        short == [state EXCEPT !.distance = U8(Max(remaining, 1)),
                               !.down = next_down(state.down)]
        loss == [state EXCEPT !.distance = U8(Min(remaining, 99)),
                              !.down = next_down(state.down)]
    IN IF gained_first_down
       THEN [state EXCEPT !.down = "First",
                          !.distance = Min(10, U8(100 - new_yard_line)),
                          !.yard_line = new_yard_line]
       ELSE IF yards_gained >= 0
       THEN IF short.down = "First" THEN handle_turnover_on_downs(short)
            ELSE [short EXCEPT !.yard_line = new_yard_line]
       ELSE IF loss.down = "First" THEN handle_turnover_on_downs(loss)
            ELSE [loss EXCEPT !.yard_line = new_yard_line]

apply_play_outcome(state, outcome) ==
    IF IsSome(outcome.scoring)
    THEN CASE outcome.scoring[1] = "Touchdown" -> handle_touchdown(state)
           [] outcome.scoring[1] = "FieldGoal" -> handle_field_goal(state)
           [] outcome.scoring[1] = "Safety" -> handle_safety(state)
    ELSE IF outcome.turnover THEN handle_turnover(state, outcome)
    ELSE IF outcome.play_type \in {"Kickoff", "KickoffReturn"}
    THEN handle_kickoff_return(state, outcome)
    ELSE update_field_position(state, outcome)

-----------------------------------------------------------------------------
(* Simulation engine (engine.rs) *)

MAX_GAME_SECONDS == 3600 * 4

\* variant: the fourth quarter ends the game whatever the score
is_game_over_at_regulation(state) ==
    IF state.clock_seconds > 0 THEN FALSE
    ELSE CASE state.quarter = "Fourth" -> TRUE
           [] state.quarter \in {"OT", "OT2"} -> state.home_score # state.away_score
           [] OTHER -> FALSE

is_game_over(state) ==
    IF state.clock_seconds > 0 THEN FALSE
    ELSE CASE state.quarter = "Fourth" -> state.home_score # state.away_score
           [] state.quarter \in {"OT", "OT2"} -> state.home_score # state.away_score
           [] OTHER -> FALSE

is_halftime(state) == state.quarter = "Second" /\ state.clock_seconds = 0

\* variant: halftime that leaves the quarter and the clock as they are
handle_halftime_stay(state) == [state EXCEPT !.kickoff_pending = TRUE]

\* variant: halftime without the timeout reset
handle_halftime_keep_timeouts(state) ==
    [state EXCEPT !.quarter = "Third",
                  !.clock_seconds = 900,
                  !.possession = IF state.possession = "Home" THEN "Away" ELSE "Home",
                  !.kickoff_pending = TRUE]

handle_halftime(state) ==
    [state EXCEPT !.quarter = "Third",
                  !.clock_seconds = 900,
                  !.possession = IF state.possession = "Home" THEN "Away" ELSE "Home",
                  !.kickoff_pending = TRUE,
                  !.home_timeouts = 3,
                  !.away_timeouts = 3]

\* variant: every quarter ends into the second overtime
handle_quarter_end_skip(state) ==
    [ok |-> TRUE, state |-> [state EXCEPT !.quarter = "OT2", !.clock_seconds = 600]]

\* handle_quarter_end: [ok |-> returned value, state |-> state afterwards]
handle_quarter_end(state) ==
    CASE state.quarter = "First" ->
            [ok |-> TRUE,
             state |-> [state EXCEPT !.quarter = "Second", !.clock_seconds = 900]]
      [] state.quarter = "Second" -> [ok |-> TRUE, state |-> state]
      [] state.quarter = "Third" ->
            [ok |-> TRUE,
             state |-> [state EXCEPT !.quarter = "Fourth", !.clock_seconds = 900]]
      [] state.quarter = "Fourth" ->
            IF state.home_score = state.away_score
            THEN [ok |-> TRUE,
                  state |-> [state EXCEPT !.quarter = "OT",
                                          !.clock_seconds = 600,
                                          !.kickoff_pending = TRUE,
                                          !.home_timeouts = 2,
                                          !.away_timeouts = 2]]
            ELSE [ok |-> FALSE, state |-> state]
      [] state.quarter = "OT" ->
            IF state.home_score = state.away_score
            THEN [ok |-> TRUE,
                  state |-> [state EXCEPT !.quarter = "OT2", !.clock_seconds = 600]]
            ELSE [ok |-> FALSE, state |-> state]
      [] state.quarter = "OT2" -> [ok |-> FALSE, state |-> state]

should_clock_run(outcome) ==
    IF IsSome(outcome.scoring) THEN FALSE
    ELSE IF outcome.turnover THEN FALSE
    ELSE outcome.play_type \notin
            {"PassIncompletion", "Interception", "Timeout", "OfficialTimeout",
             "TwoMinuteWarning", "Penalty", "Punt", "Kickoff", "KickoffReturn",
             "FieldGoalGood", "FieldGoalMissed", "EndPeriod"}

\* the "generate and execute a play" part of one loop iteration
\* variant: the play's duration is assigned to the simulated seconds, not added
play_step_assign(state) ==
    LET Recorded(outcome, applied, play, play_duration) ==
            [applied EXCEPT
                !.last_play = Some(play),
                !.play_history = Append(applied.play_history, play),
                !.clock_seconds =
                    IF should_clock_run(outcome)
                    THEN SatSubU16(applied.clock_seconds, play_duration)
                    ELSE SatSubU16(applied.clock_seconds, Min(5, play_duration)),
                !.clock_running = should_clock_run(outcome),
                !.simulated_game_seconds = play_duration]
        Played(gen) ==
            Recorded(gen.outcome,
                     apply_play_outcome([state EXCEPT !.rng = gen.rng], gen.outcome),
                     outcome_to_play(gen.outcome),
                     Min(gen.outcome.clock_elapsed, state.clock_seconds))
    IN Played(generate_play(state))

play_step(state) ==
    LET Warned(ticked) ==
            IF /\ ticked.clock_seconds <= 120
               /\ ticked.clock_seconds > 115
               /\ ticked.quarter \in {"Second", "Fourth"}
            THEN [ticked EXCEPT !.clock_running = FALSE]
            ELSE ticked
        Recorded(outcome, applied, play, play_duration) ==
            Warned([applied EXCEPT
                !.last_play = Some(play),
                !.play_history = Append(applied.play_history, play),
                !.clock_seconds =
                    IF should_clock_run(outcome)
                    THEN SatSubU16(applied.clock_seconds, play_duration)
                    ELSE SatSubU16(applied.clock_seconds, Min(5, play_duration)),
                !.clock_running = should_clock_run(outcome),
                !.simulated_game_seconds =
                    applied.simulated_game_seconds + play_duration])
        Played(gen) ==
            Recorded(gen.outcome,
                     apply_play_outcome([state EXCEPT !.rng = gen.rng], gen.outcome),
                     outcome_to_play(gen.outcome),
                     Min(gen.outcome.clock_elapsed, state.clock_seconds))
    IN Played(generate_play(state))

\* while-condition of advance_to_target
loop_continues(state, tgt) ==
    state.simulated_game_seconds < tgt /\ ~is_game_over(state)

\* the iteration leaves the loop through `break`
loop_breaks(state) ==
    ~is_halftime(state) /\ state.clock_seconds = 0 /\ ~handle_quarter_end(state).ok

\* one iteration of the loop body that does not break
loop_body(state) ==
    IF is_halftime(state) THEN handle_halftime(state)
    ELSE IF state.clock_seconds = 0 THEN handle_quarter_end(state).state
    ELSE play_step(state)

capped_target(state, target_game_seconds) ==
    Min(target_game_seconds, state.simulated_game_seconds + MAX_GAME_SECONDS)

RECURSIVE run_loop(_, _)
run_loop(state, tgt) ==
    IF ~loop_continues(state, tgt) \/ loop_breaks(state) THEN state
    ELSE run_loop(loop_body(state), tgt)

advance_to_target(state, target_game_seconds) ==
    run_loop(state, capped_target(state, target_game_seconds))

\* (real_elapsed.as_secs_f64() * time_scale) as u64
target_game_seconds_at(state, t) == (t - state.game_start_instant) * state.time_scale

advance_to_now(state, t) ==
    IF target_game_seconds_at(state, t) > state.simulated_game_seconds
    THEN advance_to_target(state, target_game_seconds_at(state, t))
    ELSE state

-----------------------------------------------------------------------------
(* Lifecycle (repository.rs advance_game_state) and projection (state.rs) *)

NoGame == [tag |-> "NoGame"]
Present(g) == g # NoGame

generate_id(n) == <<"sim_", n>>

SimulatedGame(id, created_at, last_accessed, state) ==
    [id |-> id, created_at |-> created_at, last_accessed |-> last_accessed,
     state |-> state]

touch(g, t) == [g EXCEPT !.last_accessed = t]

\* the pregame -> live part of advance_game_state
\* the Final the code parks in the slot while it moves the pregame out
\* (repository.rs 453-467)
PlaceholderFinal ==
    [tag |-> "Final",
     home_team |-> [abbreviation |-> "", record |-> None],
     away_team |-> [abbreviation |-> "", record |-> None],
     home_score |-> 0,
     away_score |-> 0,
     overtime |-> FALSE]

\* variant: the parked Final is left in the slot of a pregame that is due
start_if_due_parked(state, t) ==
    IF state.tag = "Pregame" /\ should_start(state, t) THEN PlaceholderFinal
    ELSE state

start_if_due(state, t) ==
    IF state.tag = "Pregame" /\ should_start(state, t) THEN to_live_state(state, t)
    ELSE state

\* variant: only the first overtime period counts as overtime
final_state_of_first_ot(live) ==
    [tag |-> "Final",
     home_team |-> live.home_team,
     away_team |-> live.away_team,
     home_score |-> live.home_score,
     away_score |-> live.away_score,
     overtime |-> live.quarter = "OT"]

\* the live -> final part of advance_game_state
final_state_of(live) ==
    [tag |-> "Final",
     home_team |-> live.home_team,
     away_team |-> live.away_team,
     home_score |-> live.home_score,
     away_score |-> live.away_score,
     overtime |-> live.quarter \in {"OT", "OT2"}]

\* variant: a record that is already Final is overwritten by the parked Final
end_if_over_parked(state) ==
    IF state.tag = "Live" /\ is_game_over(state) THEN final_state_of(state)
    ELSE IF state.tag = "Final" THEN PlaceholderFinal
    ELSE state

end_if_over(state) ==
    IF state.tag = "Live" /\ is_game_over(state) THEN final_state_of(state)
    ELSE state

\* advance_game_state as one function of the state and the wall instant
advance_game_state(state, t) ==
    LET started == start_if_due(state, t)
    IN IF started.tag = "Live" THEN end_if_over(advance_to_now(started, t))
       ELSE started

clone_game_state(state) ==
    IF state.tag = "Live" THEN [state EXCEPT !.rng = seed_from_u64(0)] ELSE state

to_team(info) == [abbreviation |-> info.abbreviation, record |-> info.record]

TeamWithScore(info, score, timeouts) ==
    [abbreviation |-> info.abbreviation, record |-> info.record,
     score |-> score, timeouts |-> timeouts]

to_pregame_game(p, event_id) ==
    [state |-> "pregame",
     event_id |-> event_id,
     home |-> to_team(p.home_team),
     away |-> to_team(p.away_team),
     start_time |-> p.start_time,
     venue |-> Some(p.venue),
     broadcast |-> Some(p.broadcast),
     weather |-> p.weather]

\* variant: the situation is published during a kickoff as well
to_live_game_always(l, event_id) ==
    [state |-> "live",
     event_id |-> event_id,
     home |-> TeamWithScore(l.home_team, l.home_score, l.home_timeouts),
     away |-> TeamWithScore(l.away_team, l.away_score, l.away_timeouts),
     quarter |-> l.quarter,
     clock |-> format_clock(l.clock_seconds),
     clock_running |-> l.clock_running,
     situation |-> Some([down |-> l.down,
                         distance |-> l.distance,
                         yard_line |-> l.yard_line,
                         possession |-> l.possession,
                         red_zone |-> l.yard_line >= 80]),
     last_play |-> IF l.last_play = None THEN None
                   ELSE Some([play_type |-> l.last_play[1].play_type,
                              text |-> Some(l.last_play[1].description)]),
     weather |-> l.weather]

to_live_game(l, event_id) ==
    [state |-> "live",
     event_id |-> event_id,
     home |-> TeamWithScore(l.home_team, l.home_score, l.home_timeouts),
     away |-> TeamWithScore(l.away_team, l.away_score, l.away_timeouts),
     quarter |-> l.quarter,
     clock |-> format_clock(l.clock_seconds),
     clock_running |-> l.clock_running,
     situation |-> IF l.kickoff_pending THEN None
                   ELSE Some([down |-> l.down,
                              distance |-> l.distance,
                              yard_line |-> l.yard_line,
                              possession |-> l.possession,
                              red_zone |-> l.yard_line >= 80]),
     last_play |-> IF l.last_play = None THEN None
                   ELSE Some([play_type |-> l.last_play[1].play_type,
                              text |-> Some(l.last_play[1].description)]),
     weather |-> l.weather]

to_final_game(f, event_id) ==
    [state |-> "final",
     event_id |-> event_id,
     home |-> TeamWithScore(f.home_team, f.home_score, 0),
     away |-> TeamWithScore(f.away_team, f.away_score, 0),
     status |-> IF f.overtime THEN "final/OT" ELSE "final",
     winner |-> IF f.home_score > f.away_score THEN "home"
                ELSE IF f.away_score > f.home_score THEN "away"
                ELSE "tie"]

to_game_response(g) ==
    CASE g.state.tag = "Pregame" -> to_pregame_game(g.state, g.id)
      [] g.state.tag = "Live" -> to_live_game(g.state, g.id)
      [] g.state.tag = "Final" -> to_final_game(g.state, g.id)

-----------------------------------------------------------------------------
(* Creation requests the model draws from *)

Seeds == {1, 2, 7, 42, 1234}
TimeScales == {1, 60, 3600}

LiveOpts ==
    [state |-> "live", home_team |-> None, away_team |-> None,
     home_score |-> None, away_score |-> None, quarter |-> None, clock |-> None,
     possession |-> None, down |-> None, distance |-> None, yard_line |-> None,
     home_timeouts |-> None, away_timeouts |-> None, seed |-> None,
     time_scale |-> None]

PregameOpts ==
    [state |-> "pregame", home_team |-> None, away_team |-> None,
     start_time |-> None, venue |-> None, broadcast |-> None, weather |-> None,
     seed |-> None, time_scale |-> None]

FinalOpts ==
    [state |-> "final", home_team |-> None, away_team |-> None,
     home_score |-> None, away_score |-> None, overtime |-> None]

\* game situations a live request asks for
LiveScenarios ==
    { LiveOpts,
      [LiveOpts EXCEPT !.home_team = Some("kc"), !.away_team = Some("PHI")],
      [LiveOpts EXCEPT !.home_score = Some(21), !.away_score = Some(20),
                       !.quarter = Some("Fourth"), !.clock = Some(<<"0", ":", "0", "3">>),
                       !.possession = Some("Home"), !.yard_line = Some(80)],
      [LiveOpts EXCEPT !.home_score = Some(14), !.away_score = Some(14),
                       !.quarter = Some("Fourth"), !.clock = Some(<<"0", ":", "0", "0">>)],
      [LiveOpts EXCEPT !.home_score = Some(14), !.away_score = Some(14),
                       !.quarter = Some("OT"), !.clock = Some(<<"0", ":", "1", "0">>)],
      [LiveOpts EXCEPT !.home_score = Some(3), !.away_score = Some(3),
                       !.quarter = Some("OT2"), !.clock = Some(<<"0", ":", "0", "5">>),
                       !.home_timeouts = Some(2), !.away_timeouts = Some(2)],
      [LiveOpts EXCEPT !.home_score = Some(7), !.away_score = Some(3),
                       !.quarter = Some("OT2"), !.clock = Some(<<"0", ":", "0", "5">>),
                       !.home_timeouts = Some(1), !.away_timeouts = Some(0)],
      [LiveOpts EXCEPT !.quarter = Some("Second"), !.clock = Some(<<"0", ":", "2", "0">>),
                       !.home_timeouts = Some(1)],
      [LiveOpts EXCEPT !.quarter = Some("Third"), !.clock = Some(<<"x">>),
                       !.possession = Some("Away"), !.yard_line = Some(1),
                       !.home_score = Some(254)],
      [LiveOpts EXCEPT !.possession = Some("Home"), !.yard_line = Some(2),
                       !.away_score = Some(255), !.home_score = Some(250),
                       !.down = Some("Third"), !.distance = Some(2)],
      [LiveOpts EXCEPT !.possession = Some("Home"), !.yard_line = Some(100)],
      [LiveOpts EXCEPT !.yard_line = Some(0), !.distance = Some(0)],
      [LiveOpts EXCEPT !.home_timeouts = Some(200), !.yard_line = Some(60),
                       !.down = Some("Fourth")],
      [LiveOpts EXCEPT !.quarter = Some("Fourth"), !.clock = Some(<<"1", ":", "3", "0">>),
                       !.possession = Some("Home"), !.yard_line = Some(70),
                       !.down = Some("Fourth"), !.distance = Some(5),
                       !.home_score = Some(10), !.away_score = Some(13)],
      [LiveOpts EXCEPT !.quarter = Some("Fourth"), !.clock = Some(<<"1", ":", "3", "0">>),
                       !.possession = Some("Home"), !.yard_line = Some(1),
                       !.down = Some("Fourth"), !.distance = Some(1),
                       !.home_score = Some(250), !.away_score = Some(254)],
      [LiveOpts EXCEPT !.possession = Some("Away"), !.yard_line = Some(40),
                       !.down = Some("Fourth"), !.distance = Some(8)],
      [LiveOpts EXCEPT !.down = Some("Fourth"), !.distance = Some(3)],
      [LiveOpts EXCEPT !.quarter = Some("Fourth"), !.clock = Some(<<"1", ":", "3", "0">>),
                       !.possession = Some("Home"), !.yard_line = Some(40),
                       !.down = Some("Fourth"), !.distance = Some(200),
                       !.home_score = Some(10), !.away_score = Some(13)] }

LiveRequests ==
    { [sc EXCEPT !.seed = sd, !.time_scale = Some(ts)] :
        sc \in LiveScenarios, sd \in {None} \cup {Some(x) : x \in Seeds},
        ts \in TimeScales }

\* a live request with a clock longer than the runaway cap of one get
LongRequests ==
    { [LiveOpts EXCEPT !.quarter = Some("First"),
                       !.clock = Some(<<"3", "0", "0", ":", "0", "0">>),
                       !.seed = Some(1), !.time_scale = Some(3600)] }

StartTimes == {None, Some([ok |-> FALSE, t |-> 0]), Some([ok |-> TRUE, t |-> 0]),
               Some([ok |-> TRUE, t |-> 2])}

PregameRequests ==
    { [PregameOpts EXCEPT !.start_time = st, !.seed = Some(sd), !.time_scale = ts] :
        st \in StartTimes, sd \in Seeds, ts \in {None, Some(3600)} }
    \cup
    { [PregameOpts EXCEPT !.home_team = h, !.away_team = a, !.venue = v,
                          !.weather = w, !.start_time = Some([ok |-> TRUE, t |-> 2])] :
        h \in {None, Some("KC")}, a \in {None, Some("phi"), Some("XXX")},
        v \in {None, Some("Lambeau Field")},
        w \in {None, Some([temp |-> None, description |-> Some("Fog")])} }

FinalRequests ==
    { [FinalOpts EXCEPT !.home_score = h, !.away_score = a, !.overtime = o] :
        h \in {None, Some(24)}, a \in {None, Some(24), Some(17)},
        o \in {None, Some(TRUE), Some(FALSE)} }
    \cup { [FinalOpts EXCEPT !.home_team = Some("DAL"), !.away_team = Some("NYG")] }

\* requests that name the same team twice
SameTeamRequests ==
    { [FinalOpts EXCEPT !.home_team = Some("KC"), !.away_team = Some(a),
                        !.home_score = Some(24), !.away_score = Some(17)] :
        a \in {"KC", "kc"} }

Requests ==
    LiveRequests \cup LongRequests \cup PregameRequests \cup FinalRequests
      \cup SameTeamRequests

-----------------------------------------------------------------------------
(* Repository operations on one id: create, get, delete *)

create_state(req, seed, t) ==
    CASE req.state = "pregame" -> create_pregame_state(req, seed, t)
      [] req.state = "live" -> create_live_state(req, seed, t)
      [] req.state = "final" -> create_final_state(req, seed)

\* seeds the request allows: the given one, or whatever rand::random returns
SeedsOf(req) ==
    IF req.state # "final" /\ IsSome(req.seed) THEN {req.seed[1]} ELSE Seeds

\* variant: every get advances by the whole wall-clock target from where the
\* game stands
enter_target_relative(state, t) ==
    IF state.tag = "Live"
    THEN state.simulated_game_seconds + target_game_seconds_at(state, t)
    ELSE 0

\* the target advance_to_now runs the loop with (no loop when not behind)
enter_target(state, t) ==
    IF state.tag = "Live"
    THEN IF target_game_seconds_at(state, t) > state.simulated_game_seconds
         THEN capped_target(state, target_game_seconds_at(state, t))
         ELSE state.simulated_game_seconds
    ELSE 0

\* get up to the call of the advancement loop: touch, pregame -> live
get_enter(g, t) == [touch(g, t) EXCEPT !.state = start_if_due(g.state, t)]

\* history of phases: a phase is appended when it differs from the last one
Track(tr, tag) == IF tr # << >> /\ tr[Len(tr)] = tag THEN tr ELSE Append(tr, tag)

Looping ==
    /\ pc = "advancing"
    /\ game.state.tag = "Live"
    /\ loop_continues(game.state, target)
    /\ ~loop_breaks(game.state)

\* the clients whose calls on the repository interleave
Clients == {"a", "b"}

\* a client between two calls: the result of its last call, if any
IdleCall(result) == [at |-> "idle", id |-> None, game |-> NoGame, result |-> result]

Init ==
    /\ games = << >>
    /\ next_id = 1
    /\ calls = [c \in Clients |-> IdleCall(None)]
    /\ issued = << >>
    /\ deleted = {}
    /\ asked = None
    /\ drawn = None
    /\ game = NoGame
    /\ created = FALSE
    /\ now = 0
    /\ pc = "idle"
    /\ target = 0
    /\ resp = None
    /\ trail = << >>
    /\ twin = NoGame
    /\ twin_target = 0
    /\ plays = << << >>, << >> >>

\* create(request): generate the id, build the state, insert, then get(id)
Create ==
    /\ pc = "idle"
    /\ ~created
    /\ \E req \in Requests : \E seed \in SeedsOf(req) :
          LET Entered(g, e) ==
                  /\ game' = e
                  /\ target' = enter_target(e.state, now)
                  /\ trail' = Track(Track(trail, g.state.tag), e.state.tag)
                  /\ asked' = Some(req)
              Inserted(g) == Entered(g, get_enter(g, now))
          IN Inserted(SimulatedGame(generate_id(1), now, now,
                                    create_state(req, seed, now)))
    /\ created' = TRUE
    /\ pc' = "advancing"
    /\ UNCHANGED <<now, resp, twin, twin_target, plays, repo_vars, drawn>>

\* get(id) on a stored game, up to the advancement loop
Get ==
    /\ pc = "idle"
    /\ Present(game)
    /\ LET e == get_enter(game, now)
       IN /\ game' = e
          /\ target' = enter_target(e.state, now)
          /\ trail' = Track(trail, e.state.tag)
    /\ pc' = "advancing"
    /\ UNCHANGED <<created, now, resp, twin, twin_target, plays, repo_vars, aux_vars>>

\* one iteration of the loop of advance_to_target
LoopStep ==
    /\ Looping
    /\ game' = [game EXCEPT !.state = loop_body(game.state)]
    /\ UNCHANGED <<created, now, pc, target, resp, trail, twin, twin_target, plays, repo_vars, aux_vars>>

\* the loop is left: live -> final when the game is over, then the snapshot
GetReturn ==
    /\ pc = "advancing"
    /\ ~Looping
    /\ LET done == [game EXCEPT !.state = end_if_over(game.state)]
       IN /\ game' = done
          /\ resp' = Some(to_game_response([done EXCEPT !.state = clone_game_state(done.state)]))
          /\ trail' = Track(trail, done.state.tag)
    /\ pc' = "idle"
    /\ UNCHANGED <<created, now, target, twin, twin_target, plays, repo_vars, aux_vars>>

\* get(id) when the id is not in the map
GetMissing ==
    /\ pc = "idle"
    /\ ~Present(game)
    /\ resp # None
    /\ resp' = None
    /\ UNCHANGED <<game, created, now, pc, target, trail, twin, twin_target, plays, repo_vars, aux_vars>>

\* delete(id) on a stored game
Delete ==
    /\ pc = "idle"
    /\ Present(game)
    /\ game' = NoGame
    /\ UNCHANGED <<created, now, pc, target, resp, trail, twin, twin_target, plays, repo_vars, aux_vars>>

\* wall-clock time passes between requests
Tick ==
    /\ pc = "idle"
    /\ now < MaxNow
    /\ now' = now + 1
    /\ UNCHANGED <<game, created, pc, target, resp, trail, twin, twin_target, plays, repo_vars, aux_vars>>

Next == Create \/ Get \/ LoopStep \/ GetReturn \/ GetMissing \/ Delete \/ Tick

Spec == Init /\ [][Next]_vars

-----------------------------------------------------------------------------
(* Properties of one game record under Spec *)

IsLive(g) == Present(g) /\ g.state.tag = "Live"
IsFinal(g) == Present(g) /\ g.state.tag = "Final"
IsPregame(g) == Present(g) /\ g.state.tag = "Pregame"

PhaseRank(tag) ==
    CASE tag = "Pregame" -> 0
      [] tag = "Live" -> 1
      [] tag = "Final" -> 2

\* C1: for every step of a stored record the phase stays or moves one step
\* forward along Pregame -> Live -> Final; it never moves back.
C1_PhaseForward ==
    [][(Present(game) /\ Present(game'))
         => /\ PhaseRank(game'.state.tag) >= PhaseRank(game.state.tag)
            /\ PhaseRank(game'.state.tag) <= PhaseRank(game.state.tag) + 1]_vars

\* a record created as Pregame has become Live and then Final
C1_Witness == trail = <<"Pregame", "Live", "Final">>

\* C2: once a record is Final every later step (get, time passing) leaves its
\* teams, scores and overtime flag unchanged, and the record leaves the map
\* only by delete(id).
C2_FinalImmutable ==
    [][IsFinal(game)
         => IF Present(game') THEN game'.state = game.state ELSE Delete]_vars

\* a get is running on a record that was already Final, after time has passed
C2_Witness == pc = "advancing" /\ IsFinal(game) /\ now > game.created_at

\* C3: a Pregame record is unchanged by every step taken while
\* now < start_time, and a get taken when now >= start_time replaces it by the
\* Live state of the opening kickoff: First quarter, 15:00, 0-0, no simulated
\* time, kickoff pending.
C3_PregameStart ==
    [][IsPregame(game)
         => /\ (now < game.state.start_time /\ Present(game'))
                  => game'.state = game.state
            /\ (Get /\ now >= game.state.start_time)
                  => /\ game'.state.tag = "Live"
                     /\ game'.state.quarter = "First"
                     /\ game'.state.clock_seconds = 900
                     /\ game'.state.home_score = 0
                     /\ game'.state.away_score = 0
                     /\ game'.state.simulated_game_seconds = 0
                     /\ game'.state.kickoff_pending]_vars

\* a get (not the create) has just turned a stored pregame into the live state
C3_Witness ==
    /\ pc = "advancing"
    /\ IsLive(game)
    /\ trail = <<"Pregame", "Live">>
    /\ game.created_at < game.last_accessed
    /\ game.state.play_history = << >>

\* C4: simulated_game_seconds of a live game never decreases, over every
\* step: loop iterations (plays, halftime, quarter ends) and gets.
C4_SimulatedMonotone ==
    [][(IsLive(game) /\ IsLive(game'))
         => game'.state.simulated_game_seconds >= game.state.simulated_game_seconds]_vars

\* halftime has just been handled in a game that has simulated plays
C4_Witness ==
    /\ IsLive(game)
    /\ game.state.quarter = "Third"
    /\ game.state.clock_seconds = 900
    /\ game.state.simulated_game_seconds > 0
    /\ game.state.play_history # << >>

\* C5: scores never decrease over any step of a live game, whatever u8
\* scores it was created with.
C5_ScoresNeverDecrease ==
    [][(IsLive(game) /\ IsLive(game'))
         => /\ game'.state.home_score >= game.state.home_score
            /\ game'.state.away_score >= game.state.away_score]_vars

\* C6: in every Live state both timeouts are in 0..3, and in 0..2 in OT/OT2.
C6_TimeoutsInRange ==
    IsLive(game)
      => /\ game.state.home_timeouts \in 0..3
         /\ game.state.away_timeouts \in 0..3
         /\ game.state.quarter \in {"OT", "OT2"}
               => (game.state.home_timeouts <= 2 /\ game.state.away_timeouts <= 2)

\* C7: a published situation has its yard_line in 1..99.
C7_YardLineInRange ==
    (resp # None /\ resp[1].state = "live" /\ resp[1].situation # None)
      => resp[1].situation[1].yard_line \in 1..99

\* C8: a live snapshot omits the situation exactly when kickoff_pending is
\* true in the stored state it was taken from.
C8_SituationIffNoKickoff ==
    (pc = "idle" /\ IsLive(game) /\ resp # None /\ resp[1].state = "live")
      => ((resp[1].situation = None) <=> game.state.kickoff_pending)

\* a snapshot taken after plays, with the ball in play, publishes a situation
C8_Witness ==
    /\ pc = "idle"
    /\ IsLive(game)
    /\ resp # None
    /\ resp[1].state = "live"
    /\ resp[1].situation # None
    /\ resp[1].last_play # None
    /\ ~game.state.kickoff_pending

\* C9: when a live game is turned into Final, the overtime flag and the
\* published status final/OT are set exactly when the live quarter at that
\* moment is OT or OT2.
C9_OvertimeIffOTQuarter ==
    [][(IsLive(game) /\ IsFinal(game'))
         => /\ game'.state.overtime <=> (game.state.quarter \in {"OT", "OT2"})
            /\ (resp'[1].status = "final/OT")
                  <=> (game.state.quarter \in {"OT", "OT2"})]_vars

\* a simulated game has ended in an overtime period
C9_Witness ==
    /\ IsFinal(game)
    /\ Len(trail) >= 2
    /\ trail[Len(trail) - 1] = "Live"
    /\ game.state.overtime
    /\ resp # None
    /\ resp[1].state = "final"
    /\ resp[1].status = "final/OT"

\* a play was applied by this step: the history grew by one play
PlayApplied ==
    /\ IsLive(game)
    /\ IsLive(game')
    /\ Len(game'.state.play_history) = Len(game.state.play_history) + 1

\* the rule of possession change, read off the state before the play and the
\* recorded play; a turnover on downs is a scrimmage play on fourth down that
\* gains less than the distance to go
ShouldChangePossession(before, play) ==
    \/ play.play_type \in {"RushingTouchdown", "PassingTouchdown", "FieldGoalGood",
                           "Safety", "Interception", "FumbleRecoveryOpponent",
                           "Punt", "FieldGoalMissed", "BlockedFieldGoal"}
    \/ /\ play.play_type \in {"Rush", "PassReception", "PassIncompletion", "Sack",
                              "FumbleRecoveryOwn"}
       /\ before.down = "Fourth"
       /\ play.yards_gained < before.distance

\* C11: a play changes possession exactly when it is a touchdown, a made
\* field goal, a safety, an interception, a fumble recovered by the opponent,
\* a punt, a missed or blocked field goal, or a turnover on downs.
C11_PossessionChange ==
    [][PlayApplied
         => ((game'.state.possession # game.state.possession)
               <=> ShouldChangePossession(game.state, game'.state.last_play[1]))]_vars

\* the same rule for states whose distance to go fits a signed byte
C11_PossessionChangeShortDistance ==
    [][(PlayApplied /\ game.state.distance < 128)
         => ((game'.state.possession # game.state.possession)
               <=> ShouldChangePossession(game.state, game'.state.last_play[1]))]_vars

\* C12: a loop step taken at the end of the second quarter sets quarter
\* Third, clock 15:00, flips possession, sets kickoff_pending and both timeouts
\* to 3, and generates no play: history, last play, scores and simulated
\* seconds are unchanged.
C12_Halftime ==
    [][(LoopStep /\ game.state.quarter = "Second" /\ game.state.clock_seconds = 0)
         => /\ game'.state.quarter = "Third"
            /\ game'.state.clock_seconds = 900
            /\ game'.state.possession = opponent(game.state.possession)
            /\ game'.state.kickoff_pending
            /\ game'.state.home_timeouts = 3
            /\ game'.state.away_timeouts = 3
            /\ game'.state.play_history = game.state.play_history
            /\ game'.state.last_play = game.state.last_play
            /\ game'.state.home_score = game.state.home_score
            /\ game'.state.away_score = game.state.away_score
            /\ game'.state.simulated_game_seconds = game.state.simulated_game_seconds]_vars

\* the loop stands right after the halftime step of a game with plays behind it
C12_Witness ==
    /\ pc = "advancing"
    /\ IsLive(game)
    /\ game.state.quarter = "Third"
    /\ game.state.clock_seconds = 900
    /\ game.state.kickoff_pending
    /\ game.state.last_play # None
    /\ game.state.home_timeouts = 3
    /\ game.state.away_timeouts = 3

\* C13: a live game at the end of the fourth quarter with the score tied is
\* never made Final from that state; the loop step taken there enters OT with
\* clock 10:00, kickoff pending and two timeouts each.
C13_TiedRegulationGoesToOT ==
    [][(/\ IsLive(game)
        /\ game.state.quarter = "Fourth"
        /\ game.state.clock_seconds = 0
        /\ game.state.home_score = game.state.away_score)
         => /\ ~IsFinal(game')
            /\ LoopStep => /\ game'.state.quarter = "OT"
                           /\ game'.state.clock_seconds = 600
                           /\ game'.state.kickoff_pending
                           /\ game'.state.home_timeouts = 2
                           /\ game'.state.away_timeouts = 2]_vars

\* the loop stands right after the step into overtime
C13_Witness ==
    /\ pc = "advancing"
    /\ IsLive(game)
    /\ game.state.quarter = "OT"
    /\ game.state.clock_seconds = 600
    /\ game.state.kickoff_pending
    /\ game.state.home_score = game.state.away_score
    /\ game.state.home_timeouts = 2
    /\ game.state.away_timeouts = 2

\* C14: a get that leaves the loop with the game at the end of OT2 makes it
\* Final, whatever the score, a tie included.
C14_EndOfOT2IsFinal ==
    [][(/\ GetReturn
        /\ IsLive(game)
        /\ game.state.quarter = "OT2"
        /\ game.state.clock_seconds = 0)
         => IsFinal(game')]_vars

\* a game ended in OT2 with a winner is Final
C14_DecidedOT2IsFinal ==
    [][(/\ GetReturn
        /\ IsLive(game)
        /\ game.state.quarter = "OT2"
        /\ game.state.clock_seconds = 0
        /\ game.state.home_score # game.state.away_score)
         => IsFinal(game')]_vars

\* C15: a play whose clock_elapsed exceeds the clock left in the period takes
\* the clock down by no more than what was left, and still adds its full
\* clock_elapsed to simulated_game_seconds.
C15_FullElapsedIsSimulated ==
    [][(PlayApplied /\ game'.state.last_play[1].clock_elapsed > game.state.clock_seconds)
         => /\ game'.state.clock_seconds >= 0
            /\ game'.state.clock_seconds <= game.state.clock_seconds
            /\ game'.state.simulated_game_seconds =
                  game.state.simulated_game_seconds
                    + game'.state.last_play[1].clock_elapsed]_vars

\* what the loop does with such a play: the clock is not taken below zero and
\* the simulated seconds grow by the clock that was left
C15_CappedElapsedIsSimulated ==
    [][(PlayApplied /\ game'.state.last_play[1].clock_elapsed > game.state.clock_seconds)
         => /\ game'.state.clock_seconds >= 0
            /\ game'.state.clock_seconds <= game.state.clock_seconds
            /\ game'.state.simulated_game_seconds =
                  game.state.simulated_game_seconds + game.state.clock_seconds]_vars

\* the get in progress was cut by the runaway guard: the wall-clock target
\* lies beyond the capped one, so the get started at target - MAX_GAME_SECONDS
RunawayCapped ==
    /\ pc = "advancing"
    /\ IsLive(game)
    /\ target < target_game_seconds_at(game.state, now)

\* C16: one get adds at most 14,400 to simulated_game_seconds: while the loop
\* of a get that the runaway guard cut is running, and when it is left, the
\* simulated seconds are at most 14,400 above their value at entry.
C16_RunawayGuard ==
    RunawayCapped => game.state.simulated_game_seconds <= target

\* the loop of a capped get stops with the first play that reaches the capped
\* target: it passes the target by less than that play's clock_elapsed
C16_RunawayGuardOvershoot ==
    (RunawayCapped /\ game.state.simulated_game_seconds > target)
      => /\ game.state.last_play # None
         /\ game.state.simulated_game_seconds - target
              < game.state.last_play[1].clock_elapsed

\* C17: a get whose wall-clock target lies more than 14,400 beyond the
\* simulated seconds leaves the loop with exactly 14,400 added.
C17_CappedGetAddsExactlyCap ==
    (RunawayCapped /\ ~Looping) => game.state.simulated_game_seconds = target

\* such a get that leaves the loop short of the capped target does so because
\* the game is over
C17_ShortOnlyWhenOver ==
    (RunawayCapped /\ ~Looping /\ game.state.simulated_game_seconds < target)
      => (is_game_over(game.state) \/ loop_breaks(game.state))

-----------------------------------------------------------------------------
(* The repository under interleaved calls.  Each method body that holds the  *)
(* write lock is one step; create is three steps: generate_id, the insert    *)
(* under the lock, and the get after the lock is released.                   *)

\* a counter that is read but not advanced
fetch_add_stuck(n) == n

\* AtomicU64::fetch_add(1): the counter after the call (the call returns n)
fetch_add(n) == n + 1

\* HashMap::insert
insert(m, id, g) == [k \in DOMAIN m \cup {id} |-> IF k = id THEN g ELSE m[k]]

\* a removal that leaves the entry in the map
remove_nothing(m, id) == m

\* HashMap::remove: the map without the key
remove(m, id) == [k \in DOMAIN m \ {id} |-> m[k]]

\* GameRepository::get: the map after the call and the returned Option
get(m, id, t) ==
    IF id \in DOMAIN m
    THEN LET Stored(g) ==
                 [games |-> [m EXCEPT ![id] = g],
                  out |-> Some([g EXCEPT !.state = clone_game_state(g.state)])]
         IN Stored([touch(m[id], t) EXCEPT !.state = advance_game_state(m[id].state, t)])
    ELSE [games |-> m, out |-> None]

\* GameRepository::delete: games.remove(id).is_some()
delete(m, id) == [games |-> remove(m, id), out |-> id \in DOMAIN m]

\* AppError::MockGameNotFound as a response
MockGameNotFound(id) ==
    [status |-> 404, error |-> "mock_game_not_found",
     message |-> <<"Mock game with ID '{}' not found", id>>, body |-> None,
     panicked |-> FALSE]

Responded(status, body) ==
    [status |-> status, error |-> "", message |-> << >>, body |-> body,
     panicked |-> FALSE]

\* the task of the request panicked: no response is written
Panicked ==
    [status |-> 0, error |-> "", message |-> << >>, body |-> None, panicked |-> TRUE]

get_mock_game(out, id) ==
    IF out = None THEN MockGameNotFound(id)
    ELSE Responded(200, Some(to_game_response(out[1])))

\* create ends in expect("Game should exist after creation")
create_mock_game(out) ==
    IF out = None THEN Panicked
    ELSE Responded(201, Some(to_game_response(out[1])))

delete_mock_game(ok, id) ==
    IF ok THEN Responded(204, None) ELSE MockGameNotFound(id)

CallResult(op, id, response) == [op |-> op, id |-> id, response |-> response]

\* the request the clients create games with, and the entropy it draws
RepoRequests ==
    { [req |-> [LiveOpts EXCEPT !.seed = Some(1), !.time_scale = Some(60)],
       seed |-> 1] }

\* the ids a client may ask for: issued or not
KnownIds == {generate_id(n) : n \in 1..MaxGames}

\* create, first part: generate_id, Instant::now and the state of the game
CreateGenerateId(c) ==
    /\ calls[c].at = "idle"
    /\ next_id <= MaxGames
    /\ next_id' = fetch_add(next_id)
    /\ issued' = Append(issued, generate_id(next_id))
    /\ \E r \in RepoRequests :
          calls' = [calls EXCEPT ![c] =
                      [at |-> "insert", id |-> Some(generate_id(next_id)),
                       game |-> SimulatedGame(generate_id(next_id), now, now,
                                              create_state(r.req, r.seed, now)),
                       result |-> calls[c].result]]
    /\ UNCHANGED <<games, deleted, sim_vars>>

\* create, second part: the insert under the write lock
CreateInsert(c) ==
    /\ calls[c].at = "insert"
    /\ games' = insert(games, calls[c].id[1], calls[c].game)
    /\ calls' = [calls EXCEPT ![c].at = "refetch"]
    /\ UNCHANGED <<next_id, issued, deleted, sim_vars>>

\* create, third part: self.get(&id).await.expect(..)
CreateRefetch(c) ==
    /\ calls[c].at = "refetch"
    /\ LET Fetched(r) ==
               /\ games' = r.games
               /\ calls' = [calls EXCEPT ![c] =
                              IdleCall(Some(CallResult("create", calls[c].id[1],
                                                       create_mock_game(r.out))))]
       IN Fetched(get(games, calls[c].id[1], now))
    /\ UNCHANGED <<next_id, issued, deleted, sim_vars>>

\* GET /api/mock/games/{id}
RepoGet(c, id) ==
    /\ calls[c].at = "idle"
    /\ LET Fetched(r) ==
               /\ games' = r.games
               /\ calls' = [calls EXCEPT ![c] =
                              IdleCall(Some(CallResult("get", id,
                                                       get_mock_game(r.out, id))))]
       IN Fetched(get(games, id, now))
    /\ UNCHANGED <<next_id, issued, deleted, sim_vars>>

\* DELETE /api/mock/games/{id}
RepoDelete(c, id) ==
    /\ calls[c].at = "idle"
    /\ LET Removed(r) ==
               /\ games' = r.games
               /\ calls' = [calls EXCEPT ![c] =
                              IdleCall(Some(CallResult("delete", id,
                                                       delete_mock_game(r.out, id))))]
               /\ deleted' = IF r.out THEN deleted \cup {id} ELSE deleted
       IN Removed(delete(games, id))
    /\ UNCHANGED <<next_id, issued, sim_vars>>

RepoCreateId == \E c \in Clients : CreateGenerateId(c)
RepoCreateInsert == \E c \in Clients : CreateInsert(c)
RepoCreateRefetch == \E c \in Clients : CreateRefetch(c)
RepoGetCall == \E c \in Clients, id \in KnownIds : RepoGet(c, id)
RepoDeleteCall == \E c \in Clients, id \in KnownIds : RepoDelete(c, id)

RepoNext ==
    RepoCreateId \/ RepoCreateInsert \/ RepoCreateRefetch \/ RepoGetCall \/ RepoDeleteCall

SpecRepo == Init /\ [][RepoNext]_vars

\* C18: the n-th id generate_id returns is sim_n, counted from sim_1, whatever
\* the interleaving of the creates; no id is returned twice, also not after
\* its game was deleted.
C18_IdsUniqueAndMonotonic ==
    /\ \A i \in 1..Len(issued) : issued[i] = generate_id(i)
    /\ \A i, j \in 1..Len(issued) : i # j => issued[i] # issued[j]
    /\ \A id \in deleted : \E i \in 1..Len(issued) : issued[i] = id /\ i < next_id

\* two creates are in flight after the first game was deleted
C18_Witness ==
    /\ Len(issued) >= 3
    /\ issued[1] \in deleted
    /\ \A c \in Clients : calls[c].at = "insert"

\* C19: create returns a snapshot of the game it inserted, whatever the other
\* clients do between its insert and its get.
C19_CreateReturnsItsGame ==
    \A c \in Clients :
        (calls[c].result # None /\ calls[c].result[1].op = "create")
          => /\ ~calls[c].result[1].response.panicked
             /\ calls[c].result[1].response.status = 201
             /\ calls[c].result[1].response.body # None

\* as long as no delete of its id falls between the insert and the get,
\* create returns the game
C19_CreateFailsOnlyAfterDelete ==
    \A c \in Clients :
        (calls[c].result # None /\ calls[c].result[1].op = "create"
           /\ calls[c].result[1].id \notin deleted)
          => calls[c].result[1].response.status = 201

\* C20: get and delete of an id that is not in the map answer not-found
\* (None / false, 404 mock_game_not_found) and leave the map as it is; once
\* delete(id) has returned true, get(id) is not-found and delete(id) is false.
C20_NotFound ==
    [][\A id \in KnownIds :
          /\ (id \notin DOMAIN games)
               => /\ get(games, id, now) = [games |-> games, out |-> None]
                  /\ delete(games, id) = [games |-> games, out |-> FALSE]
                  /\ \A c \in Clients :
                        /\ RepoGet(c, id)
                             => /\ games' = games
                                /\ calls'[c].result[1].response = MockGameNotFound(id)
                        /\ RepoDelete(c, id)
                             => /\ games' = games
                                /\ calls'[c].result[1].response = MockGameNotFound(id)
          /\ (id \in deleted')
               => /\ id \notin DOMAIN games'
                  /\ get(games', id, now).out = None
                  /\ delete(games', id).out = FALSE]_vars

\* after a delete that returned true, a get and a delete of the id were
\* answered not-found
C20_Witness ==
    /\ generate_id(1) \in deleted
    /\ calls["a"].result = Some(CallResult("get", generate_id(1),
                                           MockGameNotFound(generate_id(1))))
    /\ calls["b"].result = Some(CallResult("delete", generate_id(1),
                                           MockGameNotFound(generate_id(1))))

-----------------------------------------------------------------------------
(* Creation from one chosen request, and the clock text round trip *)

\* create(req) with the entropy `seed`: as Create, for a request the caller picks
CreateAs(req, seed) ==
    /\ pc = "idle"
    /\ ~created
    /\ LET Entered(g, e) ==
               /\ game' = e
               /\ target' = enter_target(e.state, now)
               /\ trail' = Track(Track(trail, g.state.tag), e.state.tag)
           Inserted(g) == Entered(g, get_enter(g, now))
       IN Inserted(SimulatedGame(generate_id(1), now, now, create_state(req, seed, now)))
    /\ asked' = Some(req)
    /\ created' = TRUE
    /\ pc' = "advancing"
    /\ UNCHANGED <<now, resp, twin, twin_target, plays, repo_vars>>

\* a live game is created with the clock text format_clock writes for s
ClockCreate ==
    \E s \in 0..MaxClock :
        /\ CreateAs([LiveOpts EXCEPT !.clock = Some(format_clock(s)),
                                     !.seed = Some(1), !.time_scale = Some(1)], 1)
        /\ drawn' = Some(s)

ClockNext == ClockCreate \/ GetReturn

SpecClock == Init /\ [][ClockNext]_vars

\* C23: for every s in 0..3599 parse_clock(format_clock(s)) is s: the game
\* created with the text of s has clock s and shows that text again.
C23_ClockRoundTrip ==
    (drawn # None)
      => /\ parse_clock(format_clock(drawn[1])) = Some(drawn[1])
         /\ IsLive(game) /\ game.state.clock_seconds = drawn[1]
         /\ (resp # None => resp[1].clock = format_clock(drawn[1]))

C23_Witness ==
    /\ drawn = Some(3599)
    /\ IsLive(game) /\ game.state.clock_seconds = 3599
    /\ resp # None /\ resp[1].clock = <<"5", "9", ":", "5", "9">>

-----------------------------------------------------------------------------
(* What a snapshot shows of the request its game was created with *)

Supplied(req, f) == f \in DOMAIN req /\ req[f] # None

\* the snapshot has the field f with the value v
Shows(snap, f, v) == f \in DOMAIN snap /\ snap[f] = v

\* the snapshot has a situation whose field f is v
ShowsSituation(snap, f, v) ==
    /\ "situation" \in DOMAIN snap
    /\ snap.situation # None
    /\ snap.situation[1][f] = v

\* the snapshot's weather has every part the request gave
ShowsWeather(snap, w) ==
    /\ "weather" \in DOMAIN snap
    /\ snap.weather # None
    /\ (w.temp # None => snap.weather[1].temp = w.temp[1])
    /\ (w.description # None => snap.weather[1].description = w.description[1])

\* every field the request supplied is in the snapshot with the supplied value
Carries(req, snap) ==
    /\ Supplied(req, "home_team") => snap.home.abbreviation = req.home_team[1]
    /\ Supplied(req, "away_team") => snap.away.abbreviation = req.away_team[1]
    /\ Supplied(req, "home_score") => Shows(snap.home, "score", req.home_score[1])
    /\ Supplied(req, "away_score") => Shows(snap.away, "score", req.away_score[1])
    /\ Supplied(req, "quarter") => Shows(snap, "quarter", req.quarter[1])
    /\ Supplied(req, "clock") => Shows(snap, "clock", req.clock[1])
    /\ Supplied(req, "possession") => ShowsSituation(snap, "possession", req.possession[1])
    /\ Supplied(req, "down") => ShowsSituation(snap, "down", req.down[1])
    /\ Supplied(req, "distance") => ShowsSituation(snap, "distance", req.distance[1])
    /\ Supplied(req, "yard_line") => ShowsSituation(snap, "yard_line", req.yard_line[1])
    /\ Supplied(req, "home_timeouts") => Shows(snap.home, "timeouts", req.home_timeouts[1])
    /\ Supplied(req, "away_timeouts") => Shows(snap.away, "timeouts", req.away_timeouts[1])
    /\ Supplied(req, "start_time")
         => (req.start_time[1].ok /\ Shows(snap, "start_time", req.start_time[1].t))
    /\ Supplied(req, "venue") => Shows(snap, "venue", req.venue)
    /\ Supplied(req, "broadcast") => Shows(snap, "broadcast", req.broadcast)
    /\ Supplied(req, "weather") => ShowsWeather(snap, req.weather[1])
    /\ Supplied(req, "overtime")
         => Shows(snap, "status", IF req.overtime[1] THEN "final/OT" ELSE "final")

\* create has returned, or a get has, at the instant of the creation
SnapshotAtCreation ==
    /\ pc = "idle"
    /\ Present(game)
    /\ asked # None
    /\ resp # None
    /\ now = game.created_at

\* C24: the snapshot of create, and of a get before game time has passed, has
\* each field the request supplied with exactly the supplied value.
C24_SuppliedFieldsCarried == SnapshotAtCreation => Carries(asked[1], resp[1])

\* the same for the requests for a final game, whose fields are all stored
C24_FinalFieldsCarried ==
    (SnapshotAtCreation /\ asked[1].state = "final") => Carries(asked[1], resp[1])

\* C25: in every record create has made, in every phase, the home team's
\* abbreviation differs from the away team's.
C25_TeamsDiffer ==
    Present(game)
      => game.state.home_team.abbreviation # game.state.away_team.abbreviation

\* the teams differ whenever the request left the away team to the draw
C25_DrawnAwayDiffers ==
    (Present(game) /\ asked # None /\ asked[1].away_team = None)
      => game.state.home_team.abbreviation # game.state.away_team.abbreviation

\* C26: a play of the advancement loop that leaves the quarter unchanged
\* lowers clock_seconds by at least 1; clock_seconds rises only where the
\* quarter changes, and then to 900 or 600.
C26_ClockDecreasesWithinQuarter ==
    [][(IsLive(game) /\ IsLive(game'))
         => /\ (PlayApplied /\ game'.state.quarter = game.state.quarter)
                 => game'.state.clock_seconds <= game.state.clock_seconds - 1
            /\ (game'.state.clock_seconds > game.state.clock_seconds)
                 => /\ game'.state.quarter # game.state.quarter
                    /\ game'.state.clock_seconds \in {900, 600}]_vars

\* plays before and after the half: the clock was reset and has run again
C26_Witness ==
    /\ IsLive(game)
    /\ asked # None /\ asked[1].state = "live" /\ asked[1].quarter = Some("Second")
    /\ game.state.quarter = "Third"
    /\ game.state.clock_seconds < 900
    /\ Len(game.state.play_history) >= 2

\* C27: apply_play_outcome leaves the RNG as it finds it: after a play the
\* RNG of the game is the one the play generator left.
C27_ApplyKeepsRng ==
    [][PlayApplied => game'.state.rng = generate_play(game.state).rng]_vars

\* plays that neither score a touchdown nor turn the ball over leave the RNG
\* of the generator
C27_ApplyKeepsRngWithoutDraws ==
    [][(PlayApplied
          /\ game'.state.last_play[1].play_type
               \notin {"RushingTouchdown", "PassingTouchdown", "Interception",
                       "FumbleRecoveryOpponent", "Punt", "FieldGoalMissed",
                       "BlockedFieldGoal"})
         => game'.state.rng = generate_play(game.state).rng]_vars

-----------------------------------------------------------------------------
(* Fourth downs: live games created on fourth down, one play each *)

FourthDownRequests ==
    { [LiveOpts EXCEPT !.down = Some("Fourth"), !.possession = Some(p),
                       !.yard_line = Some(yl), !.distance = Some(d),
                       !.quarter = Some(q), !.clock = Some(c),
                       !.home_score = Some(sc[1]), !.away_score = Some(sc[2]),
                       !.seed = Some(sd), !.time_scale = Some(1)] :
        p \in Possessions, yl \in {1, 49, 50, 54, 55, 60, 99}, d \in {1, 2, 3, 10},
        q \in {"First", "Fourth"},
        c \in {<<"1", ":", "5", "9">>, <<"2", ":", "0", "0">>},
        sc \in {<<10, 13>>, <<13, 10>>, <<7, 7>>}, sd \in {1, 42} }

FourthCreate ==
    /\ \E req \in FourthDownRequests : CreateAs(req, req.seed[1])
    /\ UNCHANGED drawn

FourthNext == FourthCreate \/ Get \/ LoopStep \/ GetReturn \/ Tick

SpecFourth == Init /\ [][FourthNext]_vars

\* a play is made on fourth down with no kickoff pending
FourthDownPlay ==
    PlayApplied /\ ~game.state.kickoff_pending /\ game.state.down = "Fourth"

\* Q4, under 120 seconds, the possessing team trails
Desperate(state) ==
    /\ state.quarter = "Fourth"
    /\ state.clock_seconds < 120
    /\ \/ (state.possession = "Home" /\ state.home_score < state.away_score)
       \/ (state.possession = "Away" /\ state.away_score < state.home_score)

IsFieldGoalAttempt(outcome) ==
    \/ /\ outcome.play_type = "FieldGoalGood"
       /\ outcome.scoring = Some("FieldGoal")
       /\ ~outcome.turnover
    \/ /\ outcome.play_type = "FieldGoalMissed"
       /\ outcome.turnover

\* C28: on fourth down with no kickoff pending and yard_line >= 55 the play
\* is a field-goal attempt, whatever the distance, quarter, clock and score.
C28_FieldGoalInRange ==
    [][(FourthDownPlay /\ game.state.yard_line >= 55)
         => /\ IsFieldGoalAttempt(generate_play(game.state).outcome)
            /\ game'.state.last_play[1].play_type \in {"FieldGoalGood", "FieldGoalMissed"}]_vars

\* in range, the field goal is attempted unless the team is desperate
C28_FieldGoalInRangeUnlessDesperate ==
    [][(FourthDownPlay /\ game.state.yard_line >= 55)
         => (IsFieldGoalAttempt(generate_play(game.state).outcome)
               <=> ~Desperate(game.state))]_vars

\* C29: on fourth down outside field-goal range with no kickoff pending the
\* play is a punt iff yard_line < 60, the team is not desperate and
\* distance > 2; otherwise it is a rush or a pass play.
C29_PuntRule ==
    [][(FourthDownPlay /\ game.state.yard_line < 55)
         => /\ (generate_play(game.state).outcome.play_type = "Punt")
                 <=> (/\ game.state.yard_line < 60
                      /\ ~Desperate(game.state)
                      /\ game.state.distance > 2)
            /\ generate_play(game.state).outcome.play_type
                 \notin {"FieldGoalGood", "FieldGoalMissed"}]_vars

\* what the generator does: short yardage keeps the offense on the field
\* only from the 50 on
C29_PuntRuleFromOwnHalf ==
    [][(FourthDownPlay /\ game.state.yard_line < 55)
         => ((generate_play(game.state).outcome.play_type = "Punt")
               <=> (/\ ~Desperate(game.state)
                    /\ ~(game.state.distance <= 2 /\ game.state.yard_line >= 50)))]_vars

\* the play of this step is a regular one: no score, no turnover flag, no kickoff
RegularPlay ==
    /\ PlayApplied
    /\ generate_play(game.state).outcome.scoring = None
    /\ ~generate_play(game.state).outcome.turnover
    /\ generate_play(game.state).outcome.play_type \notin {"Kickoff", "KickoffReturn"}

\* the first-down rule, for a play of `yards` from the state `before`
RegularPlayRule(before, yards, after) ==
    IF yards >= before.distance
    THEN /\ after.down = "First"
         /\ after.yard_line = Clamp(before.yard_line + yards, 1, 99)
         /\ after.distance = Min(10, 100 - after.yard_line)
         /\ after.possession = before.possession
    ELSE IF before.down = "Fourth"
    THEN /\ after.possession = opponent(before.possession)
         /\ after.yard_line = 100 - before.yard_line
         /\ after.down = "First"
         /\ after.distance = 10
    ELSE /\ after.down = next_down(before.down)
         /\ after.possession = before.possession

\* C30: a regular play that gains at least the distance gives a first down at
\* the clamped new yard line with distance min(10, 100 - new yard line);
\* otherwise the down advances, and from fourth down the ball goes over:
\* possession flips, yard_line is 100 minus the old one, first and 10.
C30_RegularPlay ==
    [][RegularPlay
         => RegularPlayRule(game.state, generate_play(game.state).outcome.yards_gained,
                            game'.state)]_vars

\* the rule holds for every distance that fits a signed byte
C30_RegularPlayShortDistance ==
    [][(RegularPlay /\ game.state.distance < 128)
         => RegularPlayRule(game.state, generate_play(game.state).outcome.yards_gained,
                            game'.state)]_vars

-----------------------------------------------------------------------------
(* Determinism: two games created from requests that agree on everything   *)
(* but the teams, and accessed at the same wall instants                   *)

SeededRequests == {r \in LiveRequests \cup PregameRequests : IsSome(r.seed)}

\* the same request with both teams named
WithTeams(r) == [r EXCEPT !.home_team = Some("KC"), !.away_team = Some("PHI")]

\* what a client sees of the last play in the snapshot get returns
observed_last_play(g) ==
    LET r == to_game_response([g EXCEPT !.state = clone_game_state(g.state)])
    IN IF r.state = "live" THEN r.last_play ELSE None

LoopingAt(g, tgt) ==
    /\ g.state.tag = "Live"
    /\ loop_continues(g.state, tgt)
    /\ ~loop_breaks(g.state)

\* the two creates, each followed by its get up to the advancement loop
TwinCreate ==
    /\ pc = "idle"
    /\ ~created
    /\ \E ra \in SeededRequests :
          LET Entered(sa, a, b) ==
                  /\ game' = a
                  /\ twin' = b
                  /\ target' = enter_target(a.state, now)
                  /\ twin_target' = enter_target(b.state, now)
                  /\ trail' = <<sa.tag>>
              Inserted(sa, sb) ==
                  Entered(sa,
                          get_enter(SimulatedGame(generate_id(1), now, now, sa), now),
                          get_enter(SimulatedGame(generate_id(2), now, now, sb), now))
          IN Inserted(create_state(ra, ra.seed[1], now),
                      create_state(WithTeams(ra), ra.seed[1], now))
    /\ created' = TRUE
    /\ pc' = "advancing"
    /\ UNCHANGED <<now, resp, plays, repo_vars, aux_vars>>

\* get on both ids at the same instant, up to the advancement loop; the
\* instants of successive gets are distinct
TwinGet ==
    /\ pc = "idle"
    /\ created
    /\ game.last_accessed < now
    /\ LET a == get_enter(game, now)
           b == get_enter(twin, now)
       IN /\ game' = a
          /\ twin' = b
          /\ target' = enter_target(a.state, now)
          /\ twin_target' = enter_target(b.state, now)
    /\ pc' = "advancing"
    /\ UNCHANGED <<created, now, resp, trail, plays, repo_vars, aux_vars>>

\* one loop iteration in each game that is still behind its target
TwinStep ==
    /\ pc = "advancing"
    /\ LoopingAt(game, target) \/ LoopingAt(twin, twin_target)
    /\ game' = IF LoopingAt(game, target)
               THEN [game EXCEPT !.state = loop_body(game.state)] ELSE game
    /\ twin' = IF LoopingAt(twin, twin_target)
               THEN [twin EXCEPT !.state = loop_body(twin.state)] ELSE twin
    /\ UNCHANGED <<created, now, pc, target, resp, trail, twin_target, plays, repo_vars, aux_vars>>

\* both loops are left: live -> final where due, and both snapshots are taken
TwinReturn ==
    /\ pc = "advancing"
    /\ ~LoopingAt(game, target)
    /\ ~LoopingAt(twin, twin_target)
    /\ LET a == [game EXCEPT !.state = end_if_over(game.state)]
           b == [twin EXCEPT !.state = end_if_over(twin.state)]
       IN /\ game' = a
          /\ twin' = b
          /\ plays' = <<Append(plays[1], observed_last_play(a)),
                        Append(plays[2], observed_last_play(b))>>
    /\ pc' = "idle"
    /\ UNCHANGED <<created, now, target, resp, trail, twin_target, repo_vars, aux_vars>>

TwinTick ==
    /\ pc = "idle"
    /\ now < MaxNow
    /\ now' = now + 1
    /\ UNCHANGED <<game, created, pc, target, resp, trail, twin, twin_target, plays, repo_vars, aux_vars>>

TwinNext == TwinCreate \/ TwinGet \/ TwinStep \/ TwinReturn \/ TwinTick

SpecTwin == Init /\ [][TwinNext]_vars

\* C10: equal seed and time_scale and equal access instants give equal
\* sequences of observed last plays, whether or not the teams were supplied.
C10_SameSeedSamePlays == plays[1] = plays[2]

\* a pair that was created in the pregame phase and has played is in step
C10_PregameTwinsAgree ==
    (trail = <<"Pregame">>) => plays[1] = plays[2]

-----------------------------------------------------------------------------
(* The repository with its lock.  get holds the write lock from its first    *)
(* line to its return: it is entered, runs the advancement loop one          *)
(* iteration per step, and returns.  insert, delete and the enumeration of   *)
(* list hold the lock for one step.                                          *)

\* a lock that is granted whoever holds it
lock_free_always(cs) == TRUE

\* games.write().await / games.read().await return: no get is inside its body
lock_free(cs) == \A c \in DOMAIN cs : cs[c].at # "advancing"

\* a result of list that leaves every snapshot out
list_push_skip(acc, out) == acc

\* list: `if let Some(game) = self.get(&id).await { result.push(game) }`
list_push(acc, out) == IF out = None THEN acc ELSE Append(acc, out[1])

\* the orders in which the keys of the map may be enumerated
KeyOrders(m) ==
    { o \in [1..Cardinality(DOMAIN m) -> DOMAIN m] :
        \A i, j \in 1..Cardinality(DOMAIN m) : i # j => o[i] # o[j] }

\* list_mock_games: the responses of the snapshots list returned
list_mock_games(ids, acc) ==
    CallResult("list", ids, Responded(200, [i \in 1..Len(acc) |-> to_game_response(acc[i])]))

\* the caller of get goes on with the Option it returned
AfterGet(call, out) ==
    CASE call.op = "get" ->
           IdleCall(Some(CallResult("get", call.id[1], get_mock_game(out, call.id[1]))))
      [] call.op = "create" ->
           IdleCall(Some(CallResult("create", call.id[1], create_mock_game(out))))
      [] call.op = "list" ->
           IF call.pending = << >>
           THEN IdleCall(Some(list_mock_games(call.ids, list_push(call.acc, out))))
           ELSE [call EXCEPT !.at = "listing", !.acc = list_push(call.acc, out)]

\* the call record of a client that is about to call get(id)
GetCall(op, id, ids, pending, acc, result) ==
    [at |-> "get", op |-> op, id |-> Some(id), game |-> NoGame, target |-> 0,
     ids |-> ids, pending |-> pending, acc |-> acc, result |-> result]

\* get takes the write lock; touch and pregame -> live; not-found returns at once
BeginGet(c, call) ==
    /\ lock_free(calls)
    /\ IF call.id[1] \in DOMAIN games
       THEN LET Entered(e) ==
                    /\ games' = [games EXCEPT ![call.id[1]] = e]
                    /\ calls' = [calls EXCEPT ![c] =
                                   [call EXCEPT !.at = "advancing",
                                                !.target = enter_target(e.state, now)]]
            IN Entered(get_enter(games[call.id[1]], now))
       ELSE /\ games' = games
            /\ calls' = [calls EXCEPT ![c] = AfterGet(call, None)]
    /\ UNCHANGED <<next_id, issued, deleted, sim_vars>>

\* create, first part
LockCreateId(c) == next_id <= MaxShared /\ CreateGenerateId(c)

\* create, second part: games.write().await, insert
LockCreateInsert(c) == lock_free(calls) /\ CreateInsert(c)

\* create, third part: self.get(&id)
LockCreateRefetch(c) ==
    /\ calls[c].at = "refetch"
    /\ BeginGet(c, GetCall("create", calls[c].id[1], << >>, << >>, << >>, calls[c].result))

\* GET /api/mock/games/{id}
LockGet(c, id) ==
    /\ calls[c].at = "idle"
    /\ BeginGet(c, GetCall("get", id, << >>, << >>, << >>, calls[c].result))

\* one iteration of the loop of advance_to_target, inside get
LockLoopStep(c) ==
    /\ calls[c].at = "advancing"
    /\ calls[c].id[1] \in DOMAIN games
    /\ LoopingAt(games[calls[c].id[1]], calls[c].target)
    /\ games' = [games EXCEPT ![calls[c].id[1]].state = loop_body(@)]
    /\ UNCHANGED <<next_id, calls, issued, deleted, sim_vars>>

\* the loop is left: live -> final when over, the snapshot, the lock is released
LockGetReturn(c) ==
    /\ calls[c].at = "advancing"
    /\ calls[c].id[1] \in DOMAIN games
    /\ ~LoopingAt(games[calls[c].id[1]], calls[c].target)
    /\ LET Done(g) ==
               /\ games' = [games EXCEPT ![calls[c].id[1]] = g]
               /\ calls' = [calls EXCEPT ![c] =
                              AfterGet(calls[c],
                                       Some([g EXCEPT !.state = clone_game_state(g.state)]))]
       IN Done([games[calls[c].id[1]] EXCEPT !.state = end_if_over(@)])
    /\ UNCHANGED <<next_id, issued, deleted, sim_vars>>

\* list, first part: the keys are collected under the read lock
LockListKeys(c) ==
    /\ calls[c].at = "idle"
    /\ lock_free(calls)
    /\ \E o \in KeyOrders(games) :
          calls' = [calls EXCEPT ![c] =
                      IF o = << >> THEN IdleCall(Some(list_mock_games(o, << >>)))
                      ELSE [GetCall("list", o[1], o, o, << >>, calls[c].result)
                              EXCEPT !.at = "listing"]]
    /\ UNCHANGED <<games, next_id, issued, deleted, sim_vars>>

\* list, then: get(id) for the next key
LockListGet(c) ==
    /\ calls[c].at = "listing"
    /\ BeginGet(c, [calls[c] EXCEPT !.at = "get", !.id = Some(Head(calls[c].pending)),
                                    !.pending = Tail(calls[c].pending)])

\* DELETE /api/mock/games/{id}
LockDelete(c, id) == lock_free(calls) /\ RepoDelete(c, id)

\* wall-clock time passes
LockTick ==
    /\ now < MaxLockNow
    /\ now' = now + 1
    /\ UNCHANGED <<game, created, pc, target, resp, trail, twin, twin_target, plays,
                   repo_vars, aux_vars>>

SharedIds == {generate_id(n) : n \in 1..MaxShared}

LockCreateIdCall == \E c \in Clients : LockCreateId(c)
LockCreateInsertCall == \E c \in Clients : LockCreateInsert(c)
LockCreateRefetchCall == \E c \in Clients : LockCreateRefetch(c)
LockGetCall == \E c \in Clients, id \in SharedIds : LockGet(c, id)
LockLoopStepCall == \E c \in Clients : LockLoopStep(c)
LockGetReturnCall == \E c \in Clients : LockGetReturn(c)
LockListKeysCall == \E c \in Clients : LockListKeys(c)
LockListGetCall == \E c \in Clients : LockListGet(c)
LockDeleteCall == \E c \in Clients, id \in SharedIds : LockDelete(c, id)

LockNext ==
    \/ LockCreateIdCall \/ LockCreateInsertCall \/ LockCreateRefetchCall
    \/ LockGetCall \/ LockLoopStepCall \/ LockGetReturnCall
    \/ LockListKeysCall \/ LockListGetCall \/ LockDeleteCall \/ LockTick

SpecLock == Init /\ [][LockNext]_vars

\* the clients that are inside the body of get on the game id
Advancing(cs, id) == {c \in Clients : cs[c].at = "advancing" /\ cs[c].id = Some(id)}

\* the state the gets made so far leave when they run one after another: by
\* then the game has been advanced from its creation to the last access
SequentialTable ==
    LET r == CHOOSE q \in RepoRequests : TRUE
    IN [made \in 0..MaxLockNow, seen \in 0..MaxLockNow |->
          advance_game_state(create_state(r.req, r.seed, made), seen)]

SequentialState(g) == SequentialTable[g.created_at, g.last_accessed]

\* C21: advancement is serial.  At most one caller is inside get; a stored
\* game changes only in steps of the caller inside get on it, one loop
\* iteration at a time, so no play is lost, doubled or mixed in; and when a
\* get returns the game is in the state that the calls leave when they run
\* one after another.
C21_SerialAdvancement ==
    [][/\ Cardinality({c \in Clients : calls[c].at = "advancing"}) <= 1
       /\ \A id \in DOMAIN games \cap DOMAIN games' :
             (games'[id] # games[id])
               => /\ Advancing(calls, id) \cup Advancing(calls', id) # {}
                  /\ (Advancing(calls, id) # {} /\ calls' = calls)
                       => games'[id].state = loop_body(games[id].state)
                  /\ (games[id].state.tag = "Live" /\ games'[id].state.tag = "Live")
                       => \/ games'[id].state.play_history = games[id].state.play_history
                          \/ games'[id].state.play_history
                               = Append(games[id].state.play_history,
                                        games'[id].state.last_play[1])
       /\ \A id \in DOMAIN games \cap DOMAIN games' :
             (Advancing(calls, id) # {} /\ Advancing(calls', id) = {})
               => games'[id].state = SequentialState(games'[id])]_vars

\* one client is inside get on a game that has played, after the other
\* client's get on the same game has returned
C21_Witness ==
    /\ calls["a"].at = "advancing"
    /\ calls["a"].id = Some(generate_id(1))
    /\ generate_id(1) \in DOMAIN games
    /\ games[generate_id(1)].state.tag = "Live"
    /\ Len(games[generate_id(1)].state.play_history) >= 2
    /\ calls["b"].result # None
    /\ calls["b"].result[1].op = "get"
    /\ calls["b"].result[1].id = generate_id(1)
    /\ calls["b"].result[1].response.status = 200

\* the ids of the snapshots a list returned
ListedIds(result) ==
    {result.response.body[i].event_id : i \in 1..Len(result.response.body)}

-----------------------------------------------------------------------------
(* What a play does to the score                                             *)

\* the points the two teams gained between two live states
Gained(before, after) ==
    [Home |-> after.home_score - before.home_score,
     Away |-> after.away_score - before.away_score]

\* the scoring rule, read off the state before the play, the outcome the
\* generator returned for it and the state after the play
ScoreRule(before, outcome, after) ==
    LET team == before.possession
        other == opponent(before.possession)
        gained == Gained(before, after)
    IN /\ CASE outcome.scoring = Some("Touchdown") ->
                  gained[team] \in {6, 7} /\ gained[other] = 0
            [] outcome.scoring = Some("FieldGoal") ->
                  gained[team] = 3 /\ gained[other] = 0
            [] outcome.scoring = Some("Safety") ->
                  gained[other] = 2 /\ gained[team] = 0
            [] OTHER -> gained[team] = 0 /\ gained[other] = 0
       /\ IsSome(outcome.scoring)
            => /\ after.kickoff_pending
               /\ after.down = "First"
               /\ after.distance = 10

\* C31: a play changes the score of at most one team: a touchdown adds 6 or 7
\* to the team in possession, a made field goal 3 to that team, a safety 2 to
\* its opponent, every other play nothing; after a scoring play a kickoff is
\* pending at first and 10.
C31_ScoreRule ==
    [][PlayApplied
         => ScoreRule(game.state, generate_play(game.state).outcome, game'.state)]_vars

\* the same rule for scores that leave room below the top of a byte
C31_ScoreRuleBelowTop ==
    [][(PlayApplied /\ game.state.home_score <= 248 /\ game.state.away_score <= 248)
         => ScoreRule(game.state, generate_play(game.state).outcome, game'.state)]_vars

-----------------------------------------------------------------------------
(* The range of the clock                                                    *)

\* the clock fits the length of the period: 15:00 in regulation, 10:00 in overtime
ClockInRange(state) ==
    IF state.quarter \in {"OT", "OT2"}
    THEN state.clock_seconds \in 0..600
    ELSE state.clock_seconds \in 0..900

\* C32: in every live state the clock is within 0..900 in the quarters First
\* to Fourth and within 0..600 in OT and OT2, for games created live as well
\* as for games advanced by the simulation.
C32_ClockInRange == IsLive(game) => ClockInRange(game.state)

\* the simulation keeps a clock that is in range in range, and starts a
\* pregame game with one
C32_AdvancementKeepsClockInRange ==
    [][IsLive(game')
         => /\ (IsLive(game) /\ ClockInRange(game.state)) => ClockInRange(game'.state)
            /\ IsPregame(game) => ClockInRange(game'.state)]_vars

-----------------------------------------------------------------------------
(* The length of the play history: a live game with the longest clock        *)
(* parse_clock accepts without overflow, advanced get after get              *)

HISTORY_CAP == 2048

MarathonRequests ==
    { [LiveOpts EXCEPT !.quarter = Some("First"),
                       !.clock = Some(<<"1", "0", "9", "2", ":", "0", "0">>),
                       !.seed = Some(1), !.time_scale = Some(100000)] }

MarathonCreate ==
    /\ \E req \in MarathonRequests : CreateAs(req, req.seed[1])
    /\ UNCHANGED drawn

MarathonNext == MarathonCreate \/ Get \/ LoopStep \/ GetReturn \/ Tick

SpecMarathon == Init /\ [][MarathonNext]_vars

\* C33: the play history of a live game never holds more than the cap of
\* 2,048 plays, and a play recorded at the cap drops the oldest one.
C33_HistoryCapped ==
    [][IsLive(game')
         => /\ Len(game'.state.play_history) <= HISTORY_CAP
            /\ (PlayApplied /\ Len(game.state.play_history) = HISTORY_CAP)
                 => game'.state.play_history
                      = Append(Tail(game.state.play_history), game'.state.last_play[1])]_vars

\* every play is appended and none is dropped, whatever the length
C33_HistoryOnlyGrows ==
    [][(IsLive(game) /\ IsLive(game'))
         => \/ game'.state.play_history = game.state.play_history
            \/ game'.state.play_history
                 = Append(game.state.play_history, game'.state.last_play[1])]_vars

-----------------------------------------------------------------------------
(* How far a get advances                                                    *)

\* this step is the return of a get whose game was live when the loop was left
LiveGetReturns == pc = "advancing" /\ pc' = "idle" /\ IsLive(game)

\* the simulated seconds the get had to reach: the wall-clock target, or the
\* value at entry plus MAX_GAME_SECONDS when that is less
Wanted == Min(target, target_game_seconds_at(game.state, now))

\* C34: when a get on a live game returns, the game has become Final or its
\* simulated seconds have reached the smaller of the target and the value at
\* entry plus 14,400: the loop never stops early on a live game that is behind.
C34_GetReachesTarget ==
    [][LiveGetReturns
         => \/ IsFinal(game')
            \/ game'.state.simulated_game_seconds >= Wanted]_vars

\* the loop stops short on a game that stays live only at the end of the
\* second overtime with the scores level
C34_ShortOnlyAtEndOfOT2 ==
    [][(LiveGetReturns /\ IsLive(game')
          /\ game'.state.simulated_game_seconds < Wanted)
         => /\ game'.state.quarter = "OT2"
            /\ game'.state.clock_seconds = 0
            /\ game'.state.home_score = game'.state.away_score]_vars

-----------------------------------------------------------------------------
(* Progress of the advancement loop                                          *)

QuarterRank(q) ==
    CASE q = "First" -> 1 [] q = "Second" -> 2 [] q = "Third" -> 3
      [] q = "Fourth" -> 4 [] q = "OT" -> 5 [] q = "OT2" -> 6

\* what one iteration achieves: a play that takes time off the clock and adds
\* it to the simulated seconds, or a later quarter
Progress(before, after) ==
    \/ /\ after.clock_seconds <= before.clock_seconds - 1
       /\ after.simulated_game_seconds >= before.simulated_game_seconds + 1
    \/ QuarterRank(after.quarter) > QuarterRank(before.quarter)

\* C35: the advancement loop terminates: wherever the loop runs its body the
\* iteration lowers the clock and raises the simulated seconds by at least 1
\* each, or moves the quarter forward; in every other state, the end of the
\* second quarter and of the second overtime included, the loop is left.
C35_LoopProgress ==
    (pc = "advancing" /\ IsLive(game))
      => /\ Looping => Progress(game.state, loop_body(game.state))
         /\ (game.state.quarter = "OT2" /\ game.state.clock_seconds = 0) => ~Looping
         /\ (game.state.quarter = "Second" /\ game.state.clock_seconds = 0 /\ Looping)
              => loop_body(game.state).quarter = "Third"

\* a get has left the loop at the end of the second overtime: the game sits
\* at OT2 0:00, still live, with plays made
C35_Witness ==
    /\ pc = "idle"
    /\ IsLive(game)
    /\ game.state.quarter = "OT2"
    /\ game.state.clock_seconds = 0
    /\ Len(game.state.play_history) >= 1

-----------------------------------------------------------------------------
(* The end of the game: live games created late in the game, read again and  *)
(* again while time passes.  Time runs fast enough for the wall-clock        *)
(* horizon to cover what is left of every one of them.                       *)

EndgameRequests ==
    { [LiveOpts EXCEPT !.quarter = Some(q), !.clock = Some(c),
                       !.home_score = Some(sc[1]), !.away_score = Some(sc[2]),
                       !.seed = Some(sd), !.time_scale = Some(3600)] :
        q \in {"Fourth", "OT", "OT2"},
        c \in {<<"0", ":", "0", "5">>, <<"1", ":", "3", "0">>},
        sc \in {<<3, 3>>, <<7, 3>>}, sd \in {1, 42} }

EndgameCreate ==
    /\ \E req \in EndgameRequests : CreateAs(req, req.seed[1])
    /\ UNCHANGED drawn

\* the next get: wall-clock time has passed since the last call
LaterGet ==
    /\ pc = "idle"
    /\ Present(game)
    /\ now' = Min(now + 1, MaxNow)
    /\ LET e == get_enter(game, now')
       IN /\ game' = e
          /\ target' = enter_target(e.state, now')
          /\ trail' = Track(trail, e.state.tag)
    /\ pc' = "advancing"
    /\ UNCHANGED <<created, resp, twin, twin_target, plays, repo_vars, aux_vars>>

EndgameNext == EndgameCreate \/ LaterGet \/ LoopStep \/ GetReturn

\* get is called again and again while time passes, and each call runs to its
\* end: its loop is left (every iteration makes progress) and it returns
SpecEndgame ==
    /\ Init
    /\ [][EndgameNext]_vars
    /\ WF_vars(LaterGet)
    /\ []<>(~Looping)
    /\ WF_vars(GetReturn)

TiedAtEndOfOT2(g) ==
    /\ IsLive(g)
    /\ g.state.quarter = "OT2"
    /\ g.state.clock_seconds = 0
    /\ g.state.home_score = g.state.away_score

\* C36: every live game eventually becomes Final, whatever the score line, a
\* game still level when the OT2 clock reaches 0 included.
C36_EventuallyFinal == IsLive(game) ~> IsFinal(game)

\* every live game becomes Final or ends the second overtime level
C36_FinalOrTiedAfterOT2 == IsLive(game) ~> (IsFinal(game) \/ TiedAtEndOfOT2(game))

\* a game level at the end of the second overtime stays live as it is
C36_TiedAfterOT2StaysLive ==
    [][TiedAtEndOfOT2(game)
         => /\ TiedAtEndOfOT2(game')
            /\ game'.state.simulated_game_seconds = game.state.simulated_game_seconds]_vars

-----------------------------------------------------------------------------
(* The order of the quarters                                                 *)

\* C37: the quarter of a live game stays or moves to the next one in the
\* order First, Second, Third, Fourth, OT, OT2, never back and never past
\* one; OT is entered only from Fourth and OT2 only from OT, with the scores
\* level.
C37_QuarterOrder ==
    [][(IsLive(game) /\ IsLive(game'))
         => /\ QuarterRank(game'.state.quarter) - QuarterRank(game.state.quarter)
                 \in {0, 1}
            /\ (game'.state.quarter # game.state.quarter
                  /\ game'.state.quarter \in {"OT", "OT2"})
                 => /\ game.state.home_score = game.state.away_score
                    /\ game.state.clock_seconds = 0
                    /\ game'.state.home_score = game'.state.away_score]_vars

\* a game created level at the end of the fourth quarter has gone through
\* the first overtime into the second
C37_Witness ==
    /\ IsLive(game)
    /\ asked # None /\ asked[1].state = "live" /\ asked[1].quarter = Some("Fourth")
    /\ game.state.quarter = "OT2"

-----------------------------------------------------------------------------
(* Kickoffs                                                                  *)

KickoffTypes == {"Kickoff", "KickoffReturn"}

-----------------------------------------------------------------------------
(* Advancement does not depend on how the accesses are split                 *)

\* the game was created live from a request that fixes the seed
SeededLive == asked # None /\ asked[1].state = "live" /\ IsSome(asked[1].seed)

\* the state a single get at the wall instant t leaves in a game created at t0
SingleGet(req, t0, t) ==
    advance_game_state(create_state(req, req.seed[1], t0), t)

\* no get up to the wall instant t can have met the runaway cap
BelowCap(g) ==
    (g.last_accessed - g.created_at) * asked[1].time_scale[1] <= MAX_GAME_SECONDS

\* C39: whatever gets were made before, when a get on a game created live
\* with a fixed seed leaves the loop at the wall instant t, the stored game is
\* in the state a single get at t would have left, as long as the runaway cap
\* is not met.
C39_SplitIndependence ==
    (pc = "advancing" /\ ~Looping /\ IsLive(game) /\ SeededLive /\ BelowCap(game))
      => end_if_over(game.state)
           = SingleGet(asked[1], game.created_at, game.last_accessed)

\* a second get has made plays after an earlier get had made some
C39_Witness ==
    /\ pc = "advancing" /\ ~Looping /\ IsLive(game) /\ SeededLive /\ BelowCap(game)
    /\ resp # None
    /\ resp[1].state = "live"
    /\ resp[1].last_play # None
    /\ Len(game.state.play_history) >= 4
    /\ to_live_game(game.state, game.id).last_play # resp[1].last_play
    /\ game.last_accessed >= 2

====
